---- MODULE Spec2Model ----
(***************************************************************************)
(* Arduino Sketch Vault: the command-replay synchronizer                   *)
(* (BoardSyncService), the configuration state tracker                     *)
(* (ConfigStateTracker), the Arduino event handlers and the profile        *)
(* switch (ProfileService.applyProfile) over sketch.yaml.                  *)
(*                                                                         *)
(* The host (the IDE's command registry, its board selection, the events   *)
(* it emits) is the environment: its answers are nondeterministic.         *)
(* A step of the model is the run of the extension's code between two      *)
(* points where it awaits the host (vscode.commands.getCommands,           *)
(* vscode.commands.executeCommand, setTimeout); awaits of the extension's  *)
(* own async functions, which do only synchronous file I/O, resume in the  *)
(* same turn of the event loop and are not points where a host event can   *)
(* be delivered.                                                           *)
(***************************************************************************)
EXTENDS Integers, Sequences, FiniteSets, TLC

\* ------------------------------------------------------------------------
\* FQBN texts.  An FQBN string "v:a:b:k1=v1,k2=v2" is kept by its pieces:
\* segs, the colon-separated segments before the options, and opts, the
\* comma-separated items of the options segment, each item split at its
\* first '=' (an item without '=' has one piece).
\* ------------------------------------------------------------------------

RECURSIVE Join(_, _)
Join(ss, sep) ==
  IF Len(ss) = 0 THEN ""
  ELSE IF Len(ss) = 1 THEN ss[1]
  ELSE ss[1] \o sep \o Join(Tail(ss), sep)

Range(s) == { s[i] : i \in DOMAIN s }

\* valid() of the fqbn package as fqbn-utils uses it: three non-empty
\* segments, every option item a key=value pair, no key twice.
isValidFqbn(t) ==
  /\ Len(t.segs) = 3
  /\ \A i \in DOMAIN t.segs : t.segs[i] # ""
  /\ \A i \in DOMAIN t.opts : Len(t.opts[i]) = 2 /\ t.opts[i][1] # ""
  /\ \A i, j \in DOMAIN t.opts : t.opts[i][1] = t.opts[j][1] => i = j

\* parseFqbn: null (valid = FALSE) or the base identifier and the options
\* in the order of the text.
parseFqbn_SkipsMalformed(t) ==
  LET wellFormed(item) == Len(item) = 2
      kept == [segs |-> t.segs, opts |-> SelectSeq(t.opts, wellFormed)]
  IN  IF ~isValidFqbn(kept)
      THEN [valid |-> FALSE, baseFqbn |-> "", options |-> << >>]
      ELSE [valid |-> TRUE,
            baseFqbn |-> Join(kept.segs, ":"),
            options |-> [i \in DOMAIN kept.opts |->
                           [option |-> kept.opts[i][1], value |-> kept.opts[i][2]]]]
parseFqbn(t) ==
  IF ~isValidFqbn(t)
  THEN [valid |-> FALSE, baseFqbn |-> "", options |-> << >>]
  ELSE [valid |-> TRUE,
        baseFqbn |-> Join(t.segs, ":"),
        options |-> [i \in DOMAIN t.opts |->
                       [option |-> t.opts[i][1], value |-> t.opts[i][2]]]]

\* An FQBN as the text it is: a sequence of tokens, each a separator
\* (':', ',', '=') or a word without separators.
RECURSIVE textOf(_)
textOf(tokens) ==
  IF Len(tokens) = 0 THEN "" ELSE tokens[1] \o textOf(Tail(tokens))

\* String.prototype.split(sep): the pieces of the text between the
\* occurrences of the separator.
RECURSIVE split(_, _)
split(tokens, sep) ==
  IF \A i \in DOMAIN tokens : tokens[i] # sep THEN <<tokens>>
  ELSE LET i == CHOOSE k \in DOMAIN tokens :
                  tokens[k] = sep /\ \A j \in 1..(k - 1) : tokens[j] # sep
       IN  <<SubSeq(tokens, 1, i - 1)>>
             \o split(SubSeq(tokens, i + 1, Len(tokens)), sep)

\* An option item split at its first '='.
splitAtFirst(tokens, sep) ==
  IF \A i \in DOMAIN tokens : tokens[i] # sep THEN <<textOf(tokens)>>
  ELSE LET i == CHOOSE k \in DOMAIN tokens :
                  tokens[k] = sep /\ \A j \in 1..(k - 1) : tokens[j] # sep
       IN  <<textOf(SubSeq(tokens, 1, i - 1)),
             textOf(SubSeq(tokens, i + 1, Len(tokens)))>>

\* The pieces of an FQBN text: vendor:arch:board[:item,item,...].  A text
\* of four parts has its fourth part split at the commas; any other number
\* of parts is kept as segments.
pieces(tokens) ==
  LET parts == split(tokens, ":") IN
  IF Len(parts) = 4
  THEN LET items == split(parts[4], ",") IN
       [segs |-> [i \in 1..3 |-> textOf(parts[i])],
        opts |-> [i \in DOMAIN items |-> splitAtFirst(items[i], "=")]]
  ELSE [segs |-> [i \in DOMAIN parts |-> textOf(parts[i])], opts |-> << >>]

\* Object.entries(options): the property names that are array indices
\* first, in ascending numeric order, then the other names in the order the
\* properties were created.
ArrayIndexKeys == <<"0", "1", "2">>

isArrayIndex(e) == e.option \in Range(ArrayIndexKeys)

isName(e) == ~isArrayIndex(e)

RECURSIVE indexEntries(_, _)
indexEntries(o, n) ==
  IF n > Len(ArrayIndexKeys) THEN << >>
  ELSE LET named(e) == e.option = ArrayIndexKeys[n]
       IN  SelectSeq(o, named) \o indexEntries(o, n + 1)

ObjectEntries(o) == indexEntries(o, 1) \o SelectSeq(o, isName)

\* An FQBN text put together again from what parseFqbn returned: the base
\* identifier alone, or followed by ':' and the key=value pairs of
\* Object.entries(options) joined by ','.
optionPairs(entries) ==
  [i \in DOMAIN entries |-> entries[i].option \o "=" \o entries[i].value]

reassemble_FirstPair(parsed) ==
  LET firstPair(pairs) == IF Len(pairs) = 0 THEN pairs ELSE <<pairs[1]>>
      newOptionsString ==
        Join(firstPair(optionPairs(ObjectEntries(parsed.options))), ",")
  IN  IF newOptionsString # ""
      THEN parsed.baseFqbn \o ":" \o newOptionsString
      ELSE parsed.baseFqbn
reassemble(parsed) ==
  LET newOptionsString == Join(optionPairs(ObjectEntries(parsed.options)), ",")
  IN  IF newOptionsString # ""
      THEN parsed.baseFqbn \o ":" \o newOptionsString
      ELSE parsed.baseFqbn

\* The two command naming schemes.
selectBoardCommandId(baseFqbn) == "arduino-select-board--" \o baseFqbn

configOptionCommandId(baseFqbn, optionName, value) ==
  baseFqbn \o "-" \o optionName \o "--" \o value

COMMAND_WAIT_TIMEOUT_MS == 10000
COMMAND_POLL_INTERVAL_MS == 500

\* ------------------------------------------------------------------------
\* Inputs of the synchronizer.
\* ------------------------------------------------------------------------

EspSegs == <<"esp32", "esp32", "esp32s3">>
UnoSegs == <<"arduino", "avr", "uno">>

TargetUno  == [segs |-> UnoSegs, opts |-> << >>]
TargetEsp1 == [segs |-> EspSegs, opts |-> << <<"UploadSpeed", "921600">> >>]
TargetEsp2 == [segs |-> EspSegs,
               opts |-> << <<"UploadSpeed", "921600">>, <<"USBMode", "hwcdc">> >>]
\* An option whose name is an array index, written after another option.
TargetIndexed == [segs |-> EspSegs,
                  opts |-> << <<"USBMode", "hwcdc">>, <<"1", "on">> >>]
TargetShort == [segs |-> <<"vendor", "arch">>, opts |-> << >>]
TargetMalformed ==
  [segs |-> EspSegs, opts |-> << <<"UploadSpeed", "921600">>, <<"InvalidOption">> >>]

Targets == {TargetUno, TargetEsp1, TargetEsp2, TargetShort, TargetMalformed}

\* Every command the host may ever register for these targets.
CommandsOf(t) ==
  LET p == parseFqbn(t) IN
  IF ~p.valid THEN {}
  ELSE {selectBoardCommandId(p.baseFqbn)} \cup
       { configOptionCommandId(p.baseFqbn, p.options[i].option, p.options[i].value) :
           i \in DOMAIN p.options }

AllCommands == UNION { CommandsOf(t) : t \in Targets }

HostErrorMessage == "host error"

VARIABLES
  registry,     \* host: the registered command identifiers (only grows)
  pc,           \* applyFqbn: where the call is ("idle" before the first call)
  target,       \* applyFqbn: the fqbn argument
  idx,          \* applyFqbn: index of the option whose turn it is
  elapsed,      \* waitForCommand: Date.now() - start
  result,       \* applyFqbn: the ApplyResult being built, returned at "done"
  bus,          \* history: this call's option lookups and command executions
  regAtCall,    \* history: the registry when the call started
  previousStates,          \* tracker: board identifier -> last BoardConfigState
  currentlySelectedBoard,  \* tracker: last board identifier seen, or Undefined
  observed,     \* history: the last detectChanges call, its result, the
                \* tracker's fields before it
  ideFqbn,      \* host: arduinoContext.fqbn, a board identifier or Undefined
  ideDetails,   \* host: arduinoContext.boardDetails
  pending,      \* host: the updates of arduinoContext not yet delivered
  logs,         \* LogService.logs
  doc,          \* sketch.yaml
  autoUpdate,   \* the setting read by isAutoUpdateEnabled
  started,      \* activate: logInitialState has had its turn
  lastOp,       \* history: the last operation on sketch.yaml on its own, its
                \* arguments and the document before it
  sinceAction,  \* history: the tracker, the document and the log when the
                \* user last acted in the IDE, and what ran since
  profileName,  \* applyProfile: the profileName argument
  docAtCall,    \* history: sketch.yaml when applyProfile was called
  calls,        \* history: the number of applyProfile calls so far
  suspended,    \* the applyProfile calls in flight whose turn it is not:
                \* what each holds while it awaits the host
  polls,        \* history: the getCommands lookups of waitForCommand so far
                \* in this call
  regAtSelect,  \* history: the registry when the board command returned
  lastCall,     \* history: the applyFqbn call before this one, once it
                \* returned: its target, registry, answers and result
  logFilePath,  \* LogService.logFilePath is set (a workspace folder is open)
  logFile,      \* the log file: absent, unparseable, or the entries in it
  notices,      \* history: the entries showNotification told the user about
  logCall,      \* history: the last LogService call, its entry, how its
                \* write went, and the log and the file before it
  createPc,     \* createConfiguration: which answer of the user it awaits
  createName,   \* createConfiguration: the profile name it inserted
  defaultCall,  \* history: the last applyDefaultProfile call, its arguments,
                \* the user's answer and what it returned
  codec,        \* an FQBN text, what parseFqbn returned for it and the
                \* text reassembled from that
  shown         \* history: the messages createConfiguration has shown
                \* since it was last called

syncVars == <<pc, target, idx, elapsed, result, bus, regAtCall>>

EmptyResult ==
  [success |-> FALSE, boardSelected |-> FALSE,
   optionsApplied |-> << >>, optionsFailed |-> << >>, errors |-> << >>]

parsed == parseFqbn(target)
baseFqbn == parsed.baseFqbn
options == ObjectEntries(parsed.options)

trackerVars == <<previousStates, currentlySelectedBoard, observed>>

hostVars == <<ideFqbn, ideDetails, pending>>

vaultVars == <<logs, doc, autoUpdate, started, lastOp, sinceAction>>

profileVars == <<profileName, docAtCall, calls, suspended>>

historyVars == <<polls, regAtSelect, lastCall>>

serviceVars ==
  <<logFilePath, logFile, notices, logCall, createPc, createName, defaultCall,
    codec, shown>>

vars ==
  <<registry, syncVars, trackerVars, hostVars, vaultVars, profileVars,
    historyVars, serviceVars>>

\* ------------------------------------------------------------------------
\* BoardSyncService.applyFqbn
\* ------------------------------------------------------------------------

boardCommand == selectBoardCommandId(baseFqbn)

optionCommand(i) ==
  configOptionCommandId(baseFqbn, options[i].option, options[i].value)

\* setTimeout(resolve, COMMAND_POLL_INTERVAL_MS) resumes after the interval
\* or later.
SleepDelays == {COMMAND_POLL_INTERVAL_MS, 2 * COMMAND_POLL_INTERVAL_MS}

Lookup(cmd, res) == [op |-> "lookup", cmd |-> cmd, res |-> res]
Exec(cmd, res) == [op |-> "exec", cmd |-> cmd, res |-> res]

\* allCommands.includes(commandId)
commandExists_Always(cmd, reg) == TRUE
commandExists(cmd, reg) == cmd \in reg

\* result.success = result.boardSelected && result.optionsFailed.length === 0
finalSuccess_BoardOnly(r) == r.boardSelected
finalSuccess(r) == r.boardSelected /\ Len(r.optionsFailed) = 0

\* if (!boardResult.success) { errors.push(...); return result; }
returnsAfterBoardFailure_Never(ok) == FALSE
returnsAfterBoardFailure(ok) == ~ok

\* The option loop goes on to the next option whatever the outcome of this
\* one was.
loopContinues_StopsOnFailure(ok) == ok
loopContinues(ok) == TRUE

\* waitForCommand: while (Date.now() - start < timeoutMs) is over.
waitExpired_Doubled(e) == e >= 2 * COMMAND_WAIT_TIMEOUT_MS
waitExpired(e) == ~(e < COMMAND_WAIT_TIMEOUT_MS)

\* setConfigOption: allCommands = await getCommands(), the registry as it is
\* at the option's turn, not as it was when the call started.
optionListing_AtCall(current, atCall) == atCall
optionListing(current, atCall) == current

\* catch (error) { result.errors.push(message); return result; }
Caught_Silent(r) == r
Caught(r) == [r EXCEPT !.errors = Append(@, HostErrorMessage)]

\* const result: ApplyResult = { ... }: every call builds its own result.
newResult_Shared(r) == r
newResult(r) == EmptyResult

\* if (!parsed) { result.errors.push('Invalid FQBN format'); return result; }
invalidFormat_Silent(r) == r
invalidFormat(r) == [r EXCEPT !.errors = Append(@, "Invalid FQBN format")]

\* The loop of applyFqbn from the option after idx on, up to its next await:
\* the next option's getCommands, or the end of the loop and the return.
NextOption(r, ok) ==
  IF idx < Len(options) /\ loopContinues(ok)
  THEN /\ idx' = idx + 1
       /\ pc' = "optList"
       /\ result' = r
  ELSE /\ idx' = idx
       /\ pc' = "done"
       /\ result' = [r EXCEPT !.success = finalSuccess(r)]

\* applyFqbn(fqbn) up to its first await: the parse, and waitForCommand's
\* first getCommands.  history is what the caller did before in the same
\* turn (nothing when applyFqbn is called on its own).
StartApplyFqbn(t, history) ==
  /\ target' = t
  /\ idx' = 0
  /\ elapsed' = 0
  /\ bus' = history
  /\ regAtCall' = registry
  /\ IF ~parseFqbn(t).valid
     THEN /\ result' = invalidFormat(newResult(result))
          /\ pc' = "done"
     ELSE /\ result' = newResult(result)
          /\ pc' = "poll"

\* The same, when no earlier call is in flight.
EnterApplyFqbn(t, history) ==
  /\ pc \in {"idle", "done"}
  /\ StartApplyFqbn(t, history)

CallApplyFqbn(t) == EnterApplyFqbn(t, << >>)

\* waitForCommand: getCommands() answers.  Found: selectBoard goes on to
\* executeCommand.  Not found: sleep, then poll again or time out.
PollThrows ==
  /\ pc = "poll"
  /\ bus' = Append(bus, Lookup(boardCommand, "threw"))
  /\ result' = Caught(result)
  /\ pc' = "done"
  /\ UNCHANGED <<target, idx, elapsed, regAtCall>>

PollFinds ==
  /\ pc = "poll"
  /\ commandExists(boardCommand, registry)
  /\ bus' = Append(bus, Lookup(boardCommand, "present"))
  /\ pc' = "execBoard"
  /\ UNCHANGED <<target, idx, elapsed, result, regAtCall>>

PollMisses(delay) ==
  /\ pc = "poll"
  /\ ~commandExists(boardCommand, registry)
  /\ elapsed' = elapsed + delay
  /\ IF ~waitExpired(elapsed')
     THEN /\ pc' = "poll"
          /\ result' = result
     ELSE /\ pc' = "done"
          /\ result' = [result EXCEPT
               !.boardSelected = FALSE,
               !.errors = Append(@, "Board \"" \o baseFqbn \o
                  "\" not found. Please install the required board package.")]
  /\ UNCHANGED <<target, idx, bus, regAtCall>>

\* selectBoard: executeCommand(board command) answers.
ExecBoardReturns(ok) ==
  /\ pc = "execBoard"
  /\ bus' = Append(bus, Exec(boardCommand, IF ok THEN "ok" ELSE "failed"))
  /\ IF returnsAfterBoardFailure(ok)
     THEN /\ result' = [result EXCEPT
               !.boardSelected = ok,
               !.errors = Append(@, "Failed to select board: " \o HostErrorMessage)]
          /\ pc' = "done"
          /\ idx' = idx
     ELSE NextOption([result EXCEPT !.boardSelected = ok], TRUE)
  /\ UNCHANGED <<target, elapsed, regAtCall>>

\* setConfigOption: getCommands() answers.
OptListThrows ==
  /\ pc = "optList"
  /\ bus' = Append(bus, Lookup(optionCommand(idx), "threw"))
  /\ result' = Caught(result)
  /\ pc' = "done"
  /\ UNCHANGED <<target, idx, elapsed, regAtCall>>

OptListMisses ==
  /\ pc = "optList"
  /\ ~commandExists(optionCommand(idx), optionListing(registry, regAtCall))
  /\ bus' = Append(bus, Lookup(optionCommand(idx), "absent"))
  /\ NextOption([result EXCEPT !.optionsFailed = Append(@,
         [option |-> options[idx].option, value |-> options[idx].value,
          reason |-> "Command not found (option may not be available for this board)"])],
       FALSE)
  /\ UNCHANGED <<target, elapsed, regAtCall>>

OptListFinds ==
  /\ pc = "optList"
  /\ commandExists(optionCommand(idx), optionListing(registry, regAtCall))
  /\ bus' = Append(bus, Lookup(optionCommand(idx), "present"))
  /\ pc' = "optExec"
  /\ UNCHANGED <<target, idx, elapsed, result, regAtCall>>

\* setConfigOption: executeCommand(option command) answers.
OptExecReturns(ok) ==
  /\ pc = "optExec"
  /\ bus' = Append(bus, Exec(optionCommand(idx), IF ok THEN "ok" ELSE "failed"))
  /\ NextOption(
       IF ok
       THEN [result EXCEPT !.optionsApplied = Append(@,
              [option |-> options[idx].option, value |-> options[idx].value])]
       ELSE [result EXCEPT !.optionsFailed = Append(@,
              [option |-> options[idx].option, value |-> options[idx].value,
               reason |-> "Execution failed: " \o HostErrorMessage])],
       ok)
  /\ UNCHANGED <<target, elapsed, regAtCall>>

\* The host registers one more command.
RegisterCommand(c) ==
  /\ c \notin registry
  /\ registry' = registry \cup {c}


\* ------------------------------------------------------------------------
\* ConfigStateTracker
\* ------------------------------------------------------------------------

\* JavaScript's undefined, where a string is expected.
Undefined == "undefined"

EspFqbn == Join(EspSegs, ":")
UnoFqbn == Join(UnoSegs, ":")

\* The board identifiers the IDE reports as arduinoContext.fqbn.
BoardIds == {EspFqbn, UnoFqbn}

ConfigValue(value, sel) ==
  [value |-> value, valueLabel |-> value \o " (label)", selected |-> value \in sel]

UploadSpeedOption(sel) ==
  [option |-> "UploadSpeed", optionLabel |-> "Upload Speed",
   values |-> <<ConfigValue("921600", sel), ConfigValue("460800", sel)>>]

USBModeOption(sel) ==
  [option |-> "USBMode", optionLabel |-> "USB Mode",
   values |-> <<ConfigValue("hwcdc", sel), ConfigValue("default", sel)>>]

\* boardDetails.buildProperties: 'runtime.platform.path' by its segments
\* between slashes (none when the key is missing) and 'version' (Undefined
\* when missing).  No build properties at all is both missing.
NoBuildProperties == [path |-> << >>, version |-> Undefined]

EspBuildProperties ==
  [path |-> <<"", "Arduino15", "packages", "esp32", "hardware", "esp32", "3.0.7">>,
   version |-> "3.0.5"]

UnoBuildProperties == [path |-> << >>, version |-> "1.8.6"]

\* arduinoContext.boardDetails: undefined (present = FALSE) or the board's
\* config options, each value flagged selected or not, and its build
\* properties.
NoBoardDetails ==
  [present |-> FALSE, fqbn |-> "", configOptions |-> << >>,
   buildProperties |-> NoBuildProperties]

EspDetails(speedSel, usbSel) ==
  [present |-> TRUE, fqbn |-> EspFqbn,
   configOptions |-> <<UploadSpeedOption(speedSel), USBModeOption(usbSel)>>,
   buildProperties |-> EspBuildProperties]

UnoDetails ==
  [present |-> TRUE, fqbn |-> UnoFqbn, configOptions |-> << >>,
   buildProperties |-> UnoBuildProperties]

SpeedSelections == {{}, {"921600"}, {"460800"}, {"921600", "460800"}}
UsbSelections == {{}, {"hwcdc"}}

BoardDetailsValues ==
  {UnoDetails} \cup
  { EspDetails(a, b) : a \in SpeedSelections, b \in UsbSelections }

\* option.values.find(v => v.selected): the first selected value, as a
\* sequence of at most one element.
RECURSIVE findSelected(_)
findSelected(values) ==
  IF Len(values) = 0 THEN << >>
  ELSE IF values[1].selected THEN <<values[1]>>
  ELSE findSelected(Tail(values))

\* Map.prototype.set on a map kept as the sequence of its entries in
\* insertion order: an existing key keeps its place.
MapSet(entries, e) ==
  IF \E i \in DOMAIN entries : entries[i].option = e.option
  THEN [i \in DOMAIN entries |-> IF entries[i].option = e.option THEN e ELSE entries[i]]
  ELSE Append(entries, e)

MapHas(entries, option) == \E i \in DOMAIN entries : entries[i].option = option

MapGet(entries, option) ==
  entries[CHOOSE i \in DOMAIN entries : entries[i].option = option]

RECURSIVE selectedOptions(_, _)
selectedOptions(configOptions, acc) ==
  IF Len(configOptions) = 0 THEN acc
  ELSE LET option == configOptions[1]
           selectedValue == findSelected(option.values)
       IN  selectedOptions(Tail(configOptions),
             IF Len(selectedValue) = 0 THEN acc
             ELSE MapSet(acc, [option |-> option.option,
                               label |-> option.optionLabel,
                               value |-> selectedValue[1].value,
                               valueLabel |-> selectedValue[1].valueLabel]))

createState(fqbn, boardDetails) ==
  [fqbn |-> fqbn,
   configOptions |-> selectedOptions(boardDetails.configOptions, << >>),
   programmerId |-> Undefined]

FqbnChange(previousValue, newValue, previousLabel, newLabel) ==
  [option |-> "FQBN", label |-> "Board Selection",
   previousValue |-> previousValue, newValue |-> newValue,
   previousLabel |-> previousLabel, newLabel |-> newLabel]

\* The change compareStates pushes for one option of the current state: none,
\* a new option, or a changed value.
optionChange_ChangedValuesOnly(previous, currentValue) ==
  IF MapHas(previous.configOptions, currentValue.option)
     /\ MapGet(previous.configOptions, currentValue.option).value # currentValue.value
  THEN LET previousValue == MapGet(previous.configOptions, currentValue.option) IN
       << [option |-> currentValue.option, label |-> currentValue.label,
           previousValue |-> previousValue.value, newValue |-> currentValue.value,
           previousLabel |-> previousValue.valueLabel,
           newLabel |-> currentValue.valueLabel] >>
  ELSE << >>
optionChange(previous, currentValue) ==
  IF ~MapHas(previous.configOptions, currentValue.option)
  THEN << [option |-> currentValue.option, label |-> currentValue.label,
           previousValue |-> Undefined, newValue |-> currentValue.value,
           previousLabel |-> Undefined, newLabel |-> currentValue.valueLabel] >>
  ELSE LET previousValue == MapGet(previous.configOptions, currentValue.option) IN
       IF previousValue.value # currentValue.value
       THEN << [option |-> currentValue.option, label |-> currentValue.label,
                previousValue |-> previousValue.value, newValue |-> currentValue.value,
                previousLabel |-> previousValue.valueLabel,
                newLabel |-> currentValue.valueLabel] >>
       ELSE << >>

RECURSIVE optionChanges(_, _)
optionChanges(previous, currentOptions) ==
  IF Len(currentOptions) = 0 THEN << >>
  ELSE optionChange(previous, currentOptions[1])
         \o optionChanges(previous, Tail(currentOptions))

\* boardChanged && previouslySelectedBoard: the second operand is false for
\* undefined and for the empty string.
compareStates(previous, current, boardChanged, previouslySelectedBoard) ==
  (IF boardChanged /\ previouslySelectedBoard # Undefined /\ previouslySelectedBoard # ""
   THEN <<FqbnChange(previouslySelectedBoard, current.fqbn,
                     previouslySelectedBoard, current.fqbn)>>
   ELSE << >>)
  \o optionChanges(previous, current.configOptions)

boardChangedGlobally_AnyDifference(selected, fqbn) == selected # fqbn
boardChangedGlobally_Never(selected, fqbn) == FALSE
boardChangedGlobally(selected, fqbn) == selected # Undefined /\ selected # fqbn

\* Map.prototype.set on previousStates, a function on the tracked identifiers.
StatesSet_Single(states, fqbn, state) == [f \in {fqbn} |-> state]
StatesSet_KeepsOld(states, fqbn, state) ==
  [f \in DOMAIN states \cup {fqbn} |-> IF f \in DOMAIN states THEN states[f] ELSE state]
StatesSet(states, fqbn, state) ==
  [f \in DOMAIN states \cup {fqbn} |-> IF f = fqbn THEN state ELSE states[f]]

NoStates == [f \in {} |-> Undefined]

\* if (!boardDetails) return { isInitial: true, changes: [] }, before any
\* field is touched.
absentDetails_SelectsBoard(fqbn, states, selected) ==
  [isInitial |-> TRUE, changes |-> << >>, states |-> states, selected |-> fqbn]
absentDetails(fqbn, states, selected) ==
  [isInitial |-> TRUE, changes |-> << >>, states |-> states, selected |-> selected]

\* detectChanges(fqbn, boardDetails) on a tracker whose fields are states and
\* selected: what it returns, and the fields after the call.
detectChanges(fqbn, boardDetails, states, selected) ==
  IF ~boardDetails.present
  THEN absentDetails(fqbn, states, selected)
  ELSE
    LET boardChanged == boardChangedGlobally(selected, fqbn)
        previouslySelectedBoard == selected
        newState == createState(fqbn, boardDetails)
    IN  IF fqbn \notin DOMAIN states
        THEN [isInitial |-> ~boardChanged,
              changes |-> IF boardChanged
                          THEN <<FqbnChange(previouslySelectedBoard, fqbn,
                                            "Previous board", "New board")>>
                          ELSE << >>,
              states |-> StatesSet(states, fqbn, newState),
              selected |-> fqbn]
        ELSE [isInitial |-> FALSE,
              changes |-> compareStates(states[fqbn], newState, boardChanged,
                                        previouslySelectedBoard),
              states |-> StatesSet(states, fqbn, newState),
              selected |-> fqbn]

\* A count that stops at two: none, one, several.
counted(n, happened) == IF happened /\ n < 2 THEN n + 1 ELSE n

\* cleared: no snapshot-bearing detectChanges call was made since clear()
\* emptied a tracker that held snapshots.  bearing, initials: how many
\* snapshot-bearing calls were made since the tracker was created or
\* cleared, and how many of them returned isInitial = true.
NotObserved ==
  [fqbn |-> Undefined, boardDetails |-> NoBoardDetails,
   isInitial |-> FALSE, changes |-> << >>,
   statesBefore |-> NoStates, selectedBefore |-> Undefined,
   cleared |-> FALSE, bearing |-> 0, initials |-> 0]

TrackerInit ==
  /\ previousStates = NoStates
  /\ currentlySelectedBoard = Undefined
  /\ observed = NotObserved

\* One call stateTracker.detectChanges(fqbn, boardDetails).
Observe(fqbn, boardDetails) ==
  LET r == detectChanges(fqbn, boardDetails, previousStates, currentlySelectedBoard) IN
  /\ previousStates' = r.states
  /\ currentlySelectedBoard' = r.selected
  /\ observed' = [fqbn |-> fqbn, boardDetails |-> boardDetails,
                  isInitial |-> r.isInitial, changes |-> r.changes,
                  statesBefore |-> previousStates,
                  selectedBefore |-> currentlySelectedBoard,
                  cleared |-> observed.cleared /\
                    (observed.fqbn = Undefined \/ ~observed.boardDetails.present),
                  bearing |-> counted(observed.bearing, boardDetails.present),
                  initials |-> counted(observed.initials,
                                       boardDetails.present /\ r.isInitial)]

\* clear(): previousStates.clear(); currentlySelectedBoard = undefined
clear_KeepsStates(states, selected) ==
  [states |-> states, selected |-> Undefined]
clear_KeepsSelected(states, selected) ==
  [states |-> NoStates, selected |-> selected]
clear(states, selected) == [states |-> NoStates, selected |-> Undefined]

\* One call stateTracker.clear().
Clear ==
  LET r == clear(previousStates, currentlySelectedBoard) IN
  /\ previousStates' = r.states
  /\ currentlySelectedBoard' = r.selected
  /\ observed' = [NotObserved EXCEPT
                    !.statesBefore = previousStates,
                    !.selectedBefore = currentlySelectedBoard,
                    !.cleared = previousStates # NoStates]

\* ------------------------------------------------------------------------
\* sketch.yaml (SketchYamlService) and the log (LogService)
\* ------------------------------------------------------------------------

DEFAULT_PROFILE_NAME == "default"

\* The text of no FQBN at all: undefined, or the empty string.
NoFqbn == [segs |-> << >>, opts |-> << >>]

\* The colon-separated segments of a board identifier.
fqbnSegments(id) == CHOOSE segs \in {EspSegs, UnoSegs} : Join(segs, ":") = id

\* buildCompleteFqbn: the board identifier followed by option=value for every
\* option with a selected value, in the order of the board details.
buildCompleteFqbn_BaseOnly(boardDetails) ==
  IF ~boardDetails.present \/ boardDetails.fqbn = ""
  THEN NoFqbn
  ELSE [segs |-> fqbnSegments(boardDetails.fqbn), opts |-> << >>]
buildCompleteFqbn(boardDetails) ==
  IF ~boardDetails.present \/ boardDetails.fqbn = ""
  THEN NoFqbn
  ELSE LET sel == selectedOptions(boardDetails.configOptions, << >>) IN
       [segs |-> fqbnSegments(boardDetails.fqbn),
        opts |-> [i \in DOMAIN sel |-> <<sel[i].option, sel[i].value>>]]

\* The text of an FQBN as one string.
fqbnString(t) ==
  Join(t.segs \o (IF t.opts = << >> THEN << >>
                  ELSE << Join([i \in DOMAIN t.opts |-> Join(t.opts[i], "=")], ",") >>),
       ":")

\* extractPlatformId: vendor:arch of a valid FQBN, by its two segments; the
\* whole text, as one segment, otherwise.
extractPlatformId(t) ==
  IF isValidFqbn(t) THEN <<t.segs[1], t.segs[2]>> ELSE <<fqbnString(t)>>

\* extractPlatformVersionFromPath: the segment of runtime.platform.path that
\* follows the first /vendor/hardware/arch/, if it is not empty.
extractPlatformVersionFromPath(buildProperties, platformId) ==
  LET path == buildProperties.path
      hits == { i \in 2..(Len(path) - 3) :
                  /\ path[i] = platformId[1]
                  /\ path[i + 1] = "hardware"
                  /\ path[i + 2] = platformId[2] }
  IN
  IF Len(platformId) < 2 \/ platformId[1] = "" \/ platformId[2] = "" THEN Undefined
  ELSE IF hits = {} THEN Undefined
  ELSE LET first == CHOOSE i \in hits : \A j \in hits : i <= j IN
       IF path[first + 3] = "" THEN Undefined ELSE path[first + 3]

\* getPlatformVersion: the version in the path, else the version property.
getPlatformVersion(buildProperties, platformId) ==
  LET pathVersion == extractPlatformVersionFromPath(buildProperties, platformId) IN
  IF pathVersion \notin {Undefined, ""} THEN pathVersion
  ELSE buildProperties.version

\* formatPlatformString: "vendor:arch (version)", or "vendor:arch" without
\* a version.
formatPlatformString(platformId, version) ==
  IF version \notin {Undefined, ""}
  THEN Join(platformId, ":") \o " (" \o version \o ")"
  ELSE Join(platformId, ":")

\* sketch.yaml: absent (present = FALSE), or its profiles, each with its
\* fqbn, its platforms (no entry when the key is missing) and its
\* libraries, and default_profile (Undefined when the key is missing).
NoProfiles ==
  [n \in {} |-> [fqbn |-> NoFqbn, platforms |-> << >>, libraries |-> << >>]]

NoDoc == [present |-> FALSE, profiles |-> NoProfiles, default_profile |-> Undefined]

\* updateFqbnInYaml: the fqbn of the profile default_profile names, or of
\* the profile "default" when default_profile is missing or empty; nothing
\* when there is no such profile.
\* platforms[0] = entry, or platforms.push(entry) on an empty list.
setFirstPlatform_Only(platforms, entry) == <<entry>>
setFirstPlatform(platforms, entry) ==
  IF Len(platforms) > 0
  THEN [platforms EXCEPT ![1] = entry]
  ELSE Append(platforms, entry)

\* The profile with its fqbn replaced and its first platform recomputed.
withFqbn(profile, newFqbn, boardDetails) ==
  LET platformId == extractPlatformId(newFqbn)
      platformVersion == getPlatformVersion(boardDetails.buildProperties, platformId)
      platformString == formatPlatformString(platformId, platformVersion)
  IN  [profile EXCEPT
         !.fqbn = newFqbn,
         !.platforms = setFirstPlatform(@, [platform |-> platformString])]

updateFqbnInYaml_DefaultNamed(d, newFqbn, boardDetails) ==
  IF DEFAULT_PROFILE_NAME \notin DOMAIN d.profiles THEN d
  ELSE [d EXCEPT !.profiles[DEFAULT_PROFILE_NAME] = withFqbn(@, newFqbn, boardDetails)]
updateFqbnInYaml(d, newFqbn, boardDetails) ==
  LET defaultProfile ==
        IF d.default_profile \in {Undefined, ""} THEN DEFAULT_PROFILE_NAME
        ELSE d.default_profile
  IN  IF defaultProfile \notin DOMAIN d.profiles THEN d
      ELSE [d EXCEPT !.profiles[defaultProfile] = withFqbn(@, newFqbn, boardDetails)]

updateSketchYamlFqbn_AnyProfile(d, boardDetails) ==
  IF ~d.present THEN d
  ELSE LET completeFqbn == buildCompleteFqbn(boardDetails)
           defaultProfile ==
             IF d.default_profile \in {Undefined, ""} THEN DEFAULT_PROFILE_NAME
             ELSE d.default_profile
       IN
       IF completeFqbn = NoFqbn THEN d
       ELSE IF defaultProfile \in DOMAIN d.profiles \/ DOMAIN d.profiles = {}
       THEN updateFqbnInYaml(d, completeFqbn, boardDetails)
       ELSE LET n == CHOOSE n \in DOMAIN d.profiles : TRUE IN
            [d EXCEPT !.profiles[n] = withFqbn(@, completeFqbn, boardDetails)]
updateSketchYamlFqbn(d, boardDetails) ==
  IF ~d.present THEN d
  ELSE LET completeFqbn == buildCompleteFqbn(boardDetails) IN
       IF completeFqbn = NoFqbn THEN d
       ELSE updateFqbnInYaml(d, completeFqbn, boardDetails)

\* updateDefaultProfile: default_profile = profileName, when the file is
\* there and has that profile.
updateDefaultProfile_Noop(d, name) == d
updateDefaultProfile_KeepsSet(d, name) ==
  IF ~d.present THEN d
  ELSE IF name \notin DOMAIN d.profiles THEN d
  ELSE IF d.default_profile # Undefined THEN d
  ELSE [d EXCEPT !.default_profile = name]
updateDefaultProfile(d, name) ==
  IF ~d.present THEN d
  ELSE IF name \notin DOMAIN d.profiles THEN d
  ELSE [d EXCEPT !.default_profile = name]

\* No operation on sketch.yaml yet.
NoOp ==
  [op |-> "none", name |-> Undefined, boardDetails |-> NoBoardDetails,
   before |-> NoDoc]

LogEntry(fqbn, changes, changeType) ==
  [fqbn |-> fqbn, changes |-> changes, changeType |-> changeType]

\* logConfigChange: this.logs.push(entry)
logConfigChange_Prepends(lg, entry) == <<entry>> \o lg
logConfigChange(lg, entry) == Append(lg, entry)

\* ------------------------------------------------------------------------
\* The Arduino event handlers.  A handler reads arduinoContext when it runs;
\* w is everything it reads or writes: the context (fqbn, boardDetails), the
\* tracker (states, selected), the log, sketch.yaml, the auto-update
\* setting, and two histories (observed, and detects, the number of
\* detectChanges calls).
\* ------------------------------------------------------------------------

\* stateTracker.detectChanges(fqbn, boardDetails)
track(w) ==
  LET r == detectChanges(w.fqbn, w.boardDetails, w.states, w.selected) IN
  [w EXCEPT !.states = r.states,
            !.selected = r.selected,
            !.detects = @ + 1,
            !.observed = [fqbn |-> w.fqbn, boardDetails |-> w.boardDetails,
                          isInitial |-> r.isInitial, changes |-> r.changes,
                          statesBefore |-> w.states,
                          selectedBefore |-> w.selected,
                          cleared |-> w.observed.cleared /\
                            (w.observed.fqbn = Undefined
                               \/ ~w.observed.boardDetails.present),
                          bearing |-> counted(w.observed.bearing,
                                              w.boardDetails.present),
                          initials |-> counted(w.observed.initials,
                                               w.boardDetails.present /\ r.isInitial)]]

\* if (!fqbn || !boardDetails) return;
contextMissing(w) == w.fqbn \in {Undefined, ""} \/ ~w.boardDetails.present

logInitialState(w) ==
  IF contextMissing(w) THEN w
  ELSE LET t == track(w) IN
       [t EXCEPT !.logs = logConfigChange(@,
                    LogEntry(w.fqbn, t.observed.changes, "initial"))]

handleBoardDetailsChange_AlwaysSyncs(w) ==
  IF contextMissing(w) THEN w
  ELSE
    LET t == track(w)
        changes == t.observed.changes
        report == ~t.observed.isInitial /\ Len(changes) > 0
        logged == IF report
                  THEN [t EXCEPT !.logs = logConfigChange(@,
                           LogEntry(w.fqbn, changes, "board"))]
                  ELSE t
    IN  IF report
        THEN [logged EXCEPT !.doc = updateSketchYamlFqbn(@, w.boardDetails)]
        ELSE logged
handleBoardDetailsChange(w) ==
  IF contextMissing(w) THEN w
  ELSE
    LET t == track(w)
        changes == t.observed.changes
        report == ~t.observed.isInitial /\ Len(changes) > 0
        logged == IF report
                  THEN [t EXCEPT !.logs = logConfigChange(@,
                           LogEntry(w.fqbn, changes, "board"))]
                  ELSE t
    IN  IF report /\ w.autoUpdate
        THEN [logged EXCEPT !.doc = updateSketchYamlFqbn(@, w.boardDetails)]
        ELSE logged

handleFqbnChange_Diffs(w) == handleBoardDetailsChange(w)
handleFqbnChange(w) ==
  IF contextMissing(w) THEN w
  ELSE [w EXCEPT !.logs = logConfigChange(@, LogEntry(w.fqbn, << >>, "fqbn"))]

handlePortChange(w) ==
  IF contextMissing(w) THEN w
  ELSE [w EXCEPT !.logs = logConfigChange(@, LogEntry(w.fqbn, << >>, "port"))]

\* The listeners registerArduinoEventHandlers registers, called with the
\* new value of the key.
onFqbn(fqbn, w) ==
  IF fqbn \notin {Undefined, ""} THEN handleFqbnChange(w) ELSE w

onBoardDetails(boardDetails, w) ==
  IF boardDetails.present /\ w.fqbn \notin {Undefined, ""}
  THEN handleBoardDetailsChange(w)
  ELSE w

onPort(w) ==
  IF w.fqbn \notin {Undefined, ""} THEN handlePortChange(w) ELSE w

\* ------------------------------------------------------------------------
\* The host: arduinoContext and the delivery of its updates.  An update
\* sets one key of arduinoContext and calls the listeners of that key.
\* ------------------------------------------------------------------------

MaxPending == 2
MaxActions == 2
MaxCalls == 1
MaxAccepts == 2

\* The board details the IDE reports: at most one value selected per option.
IdeDetails ==
  {UnoDetails,
   EspDetails({"921600"}, {"hwcdc"}),
   EspDetails({"460800"}, {"hwcdc"})}

FqbnUpdate(fqbn) == [key |-> "fqbn", fqbn |-> fqbn, boardDetails |-> NoBoardDetails]

DetailsUpdate(boardDetails) ==
  [key |-> "boardDetails", fqbn |-> Undefined, boardDetails |-> boardDetails]

PortUpdate == [key |-> "port", fqbn |-> Undefined, boardDetails |-> NoBoardDetails]

\* What the handlers see and hold, with arduinoContext as given.
World(fqbn, boardDetails) ==
  [fqbn |-> fqbn, boardDetails |-> boardDetails,
   states |-> previousStates, selected |-> currentlySelectedBoard,
   observed |-> observed, logs |-> logs, doc |-> doc,
   autoUpdate |-> autoUpdate, detects |-> sinceAction.detects]

\* arduinoContext once the first pending update is applied.
fqbnDelivered ==
  IF Head(pending).key = "fqbn" THEN Head(pending).fqbn ELSE ideFqbn

detailsDelivered ==
  IF Head(pending).key = "boardDetails" THEN Head(pending).boardDetails
  ELSE ideDetails

\* The listeners' run for the first pending update.
Delivered ==
  LET u == Head(pending)
      w == World(fqbnDelivered, detailsDelivered)
  IN  IF u.key = "fqbn" THEN onFqbn(u.fqbn, w)
      ELSE IF u.key = "boardDetails" THEN onBoardDetails(u.boardDetails, w)
      ELSE onPort(w)

\* The handlers' writes.
Written(w) ==
  /\ previousStates' = w.states
  /\ currentlySelectedBoard' = w.selected
  /\ observed' = w.observed
  /\ logs' = w.logs
  /\ doc' = w.doc

\* The host delivers the first pending update, of the given key.
Fire(key) ==
  /\ pending # << >>
  /\ Head(pending).key = key
  /\ ideFqbn' = fqbnDelivered
  /\ ideDetails' = detailsDelivered
  /\ pending' = Tail(pending)
  /\ Written(Delivered)
  /\ UNCHANGED <<autoUpdate, started, lastOp>>

\* activate: once the log service is initialized, logInitialState if the
\* context has a board and its details.
Startup ==
  /\ ~started
  /\ started' = TRUE
  /\ Written(IF ideFqbn \notin {Undefined, ""} /\ ideDetails.present
             THEN logInitialState(World(ideFqbn, ideDetails))
             ELSE World(ideFqbn, ideDetails))
  /\ UNCHANGED <<autoUpdate, lastOp, hostVars>>

\* The tracker, the document and the log as they are now, nothing run yet.
Snapshot ==
  [states |-> previousStates, selected |-> currentlySelectedBoard,
   doc |-> doc, logsLen |-> Len(logs),
   detects |-> 0, fired |-> << >>, initial |-> FALSE,
   action |-> sinceAction.action + 1]

\* The user picks a board or an option in the IDE: the IDE is to update
\* the keys named, in that order, either all of arduinoContext before it
\* calls any listener (joint) or each key as it calls the key's listeners.
UserSelects(fqbn, boardDetails, keys, joint) ==
  /\ pending = << >>
  /\ sinceAction.action < MaxActions
  /\ pending' = [i \in DOMAIN keys |->
                   IF keys[i] = "fqbn" THEN FqbnUpdate(fqbn)
                   ELSE DetailsUpdate(boardDetails)]
  /\ ideFqbn' = IF joint /\ "fqbn" \in Range(keys) THEN fqbn ELSE ideFqbn
  /\ ideDetails' = IF joint /\ "boardDetails" \in Range(keys) THEN boardDetails
                   ELSE ideDetails
  /\ sinceAction' = Snapshot
  /\ UNCHANGED <<trackerVars, logs, doc, autoUpdate, started, lastOp>>

\* The user picks a port.
UserPicksPort ==
  /\ pending = << >>
  /\ sinceAction.action < MaxActions
  /\ pending' = <<PortUpdate>>
  /\ sinceAction' = Snapshot
  /\ UNCHANGED <<ideFqbn, ideDetails, trackerVars, logs, doc, autoUpdate, started, lastOp>>

\* ------------------------------------------------------------------------
\* ProfileService.applyProfile, and what the commands it executes do to the
\* IDE
\* ------------------------------------------------------------------------

ProfileNames == {"default", "uno", "bench"}

EspPlatform == [platform |-> "esp32:esp32 (3.0.5)"]
UnoPlatform == [platform |-> "arduino:avr (1.8.6)"]

Profiles ==
  [n \in ProfileNames |->
     IF n = "uno"
     THEN [fqbn |-> TargetUno, platforms |-> <<UnoPlatform, EspPlatform>>,
           libraries |-> << >>]
     ELSE IF n = "bench"
     THEN [fqbn |-> TargetEsp2, platforms |-> << >>,
           libraries |-> <<"ArduinoJson (7.2.1)", "NimBLE-Arduino (2.3.4)">>]
     ELSE [fqbn |-> TargetEsp1, platforms |-> <<EspPlatform>>,
           libraries |-> <<"ArduinoJson (7.2.1)">>]]

Doc(defaultProfile) ==
  [present |-> TRUE, profiles |-> Profiles, default_profile |-> defaultProfile]

\* The history of the call before applyFqbn is entered: the write of
\* default_profile, and what default_profile is after it.
WroteDefaultProfile(name, d) ==
  [op |-> "updateDefaultProfile", cmd |-> name, res |-> d.default_profile]

\* if (!hasSketchYaml()) ...; if (!yamlContent?.profiles) ...;
\* if (!profile?.fqbn) ...: return false
profileUnusable_MissingOnly(d, name) ==
  \/ ~d.present
  \/ name \notin DOMAIN d.profiles
profileUnusable(d, name) ==
  \/ ~d.present
  \/ name \notin DOMAIN d.profiles
  \/ d.profiles[name].fqbn = NoFqbn

\* applyProfile(profileName) up to its first await of the host: the checks,
\* updateDefaultProfile, then applyFqbn up to its first getCommands.
applyProfile(name) ==
  /\ profileName' = name
  /\ docAtCall' = doc
  /\ IF profileUnusable(doc, name)
     THEN /\ doc' = doc
          /\ bus' = << >>
          /\ UNCHANGED <<pc, target, idx, elapsed, result, regAtCall>>
     ELSE /\ doc' = updateDefaultProfile(doc, name)
          /\ StartApplyFqbn(doc.profiles[name].fqbn,
                            <<WroteDefaultProfile(name, doc')>>)

\* applyProfile called when no earlier call is in flight.
CallApplyProfile(name) ==
  /\ pc \in {"idle", "done"}
  /\ calls < MaxCalls
  /\ calls' = calls + 1
  /\ suspended' = suspended
  /\ applyProfile(name)

\* What the call whose turn it is holds.
Running ==
  [pc |-> pc, target |-> target, idx |-> idx, elapsed |-> elapsed,
   result |-> result, bus |-> bus, regAtCall |-> regAtCall,
   profileName |-> profileName, docAtCall |-> docAtCall]

inFlight(call) == call.pc \notin {"idle", "done"}

\* getProfiles: the items of the picker, the profiles that have an fqbn.
getProfiles(d) ==
  IF ~d.present THEN {}
  ELSE { n \in DOMAIN d.profiles : d.profiles[n].fqbn # NoFqbn }

\* showProfilePicker, onDidAccept: this.applyProfile(selected.profile.name)
\* is called and not awaited, whatever an earlier call is doing.  An earlier
\* call still in flight stays where it awaits the host.
PickerAccept(name) ==
  /\ name \in getProfiles(doc)
  /\ calls < MaxAccepts
  /\ calls' = calls + 1
  /\ suspended' = IF inFlight(Running) THEN Append(suspended, Running)
                  ELSE suspended
  /\ applyProfile(name)

\* The host answers a call whose turn it was not: that call goes on, and
\* the one that was running waits for its own answer, if it is in flight.
PickerResumes(i) ==
  /\ i \in DOMAIN suspended
  /\ pc' = suspended[i].pc
  /\ target' = suspended[i].target
  /\ idx' = suspended[i].idx
  /\ elapsed' = suspended[i].elapsed
  /\ result' = suspended[i].result
  /\ bus' = suspended[i].bus
  /\ regAtCall' = suspended[i].regAtCall
  /\ profileName' = suspended[i].profileName
  /\ docAtCall' = suspended[i].docAtCall
  /\ suspended' =
       IF inFlight(Running) THEN [suspended EXCEPT ![i] = Running]
       ELSE [k \in 1..(Len(suspended) - 1) |->
               IF k < i THEN suspended[k] ELSE suspended[k + 1]]
  /\ UNCHANGED calls

\* What the IDE holds once every pending update is delivered.
isDetailsUpdate(u) == u.key = "boardDetails"

hostDetails ==
  LET ds == SelectSeq(pending, isDetailsUpdate) IN
  IF ds = << >> THEN ideDetails ELSE ds[Len(ds)].boardDetails

\* The details of a board just selected.
DefaultDetails(board) ==
  IF board = UnoFqbn THEN UnoDetails ELSE EspDetails({"460800"}, {"hwcdc"})

\* The board details with the given value of the option selected.
withSelected(boardDetails, option, value) ==
  LET pick(o) ==
        IF o.option # option THEN o
        ELSE [o EXCEPT !.values =
                [k \in DOMAIN o.values |->
                   [o.values[k] EXCEPT !.selected = (o.values[k].value = value)]]]
  IN  [boardDetails EXCEPT !.configOptions =
         [i \in DOMAIN boardDetails.configOptions |->
            pick(boardDetails.configOptions[i])]]

\* The updates the IDE sends after a board-select command: none, or fqbn
\* and boardDetails in either order.
BoardUpdates(board) ==
  {<< >>,
   <<FqbnUpdate(board), DetailsUpdate(DefaultDetails(board))>>,
   <<DetailsUpdate(DefaultDetails(board)), FqbnUpdate(board)>>}

\* The updates the IDE sends after an option command: none, or boardDetails.
OptionUpdates(option, value) ==
  IF hostDetails.present
  THEN {<< >>, <<DetailsUpdate(withSelected(hostDetails, option, value))>>}
  ELSE {<< >>}

Enqueue(ups) ==
  /\ Len(pending) + Len(ups) <= MaxPending
  /\ pending' = pending \o ups

\* No FQBN text given to parseFqbn yet.
NoCodec ==
  [text |-> << >>, called |-> FALSE,
   parsed |-> [valid |-> FALSE, baseFqbn |-> "", options |-> << >>],
   reassembled |-> FALSE, rebuilt |-> ""]

\* No createConfiguration in progress.
NoCreate == "idle"

NoShown == [called |-> FALSE, messages |-> << >>]

\* No applyDefaultProfile call yet.
NoDefaultCall ==
  [promptUser |-> FALSE, awaiting |-> FALSE, answered |-> FALSE,
   answer |-> Undefined, returned |-> Undefined, fqbn |-> NoFqbn,
   docBefore |-> NoDoc, syncBefore |-> << >>]

\* ------------------------------------------------------------------------
\* LogService: the in-memory log, its file and the notifications
\* ------------------------------------------------------------------------

\* The log file: not there (existsSync is false), text JSON.parse rejects,
\* or the entries serialized in it.
NoLogFile == [kind |-> "absent", entries |-> << >>]
Unparseable == [kind |-> "unparseable", entries |-> << >>]
Serialized(lg) == [kind |-> "entries", entries |-> lg]

\* A write of the log file: writeFileSync returns, or throws.
WriteOutcomes == {"written", "refused"}

\* loadLogs: nothing without a path or a file; the parsed entries; no
\* entries when parsing throws.
loadLogs(path, file, lg) ==
  IF ~path THEN lg
  ELSE IF file = NoLogFile THEN lg
  ELSE IF file = Unparseable THEN << >>
  ELSE file.entries

\* writeToFile: the file after it.  JSON.stringify(this.logs) is written;
\* nothing without a path; a throw of writeFileSync is caught.
writeToFile_LastEntry(path, file, lg, write) ==
  IF ~path THEN file
  ELSE IF write = "written" THEN Serialized(<<lg[Len(lg)]>>)
  ELSE file
writeToFile(path, file, lg, write) ==
  IF ~path THEN file
  ELSE IF write = "written" THEN Serialized(lg)
  ELSE file

\* How the write of a call went: "none" without a path.
wrote(path, write) == IF path THEN write ELSE "none"

\* logConfigChange: entry.changeType !== 'initial' && entry.changes.length > 0
shouldNotify_AnyChange(entry) == Len(entry.changes) > 0
shouldNotify(entry) == entry.changeType # "initial" /\ Len(entry.changes) > 0

\* showNotification: nothing for an entry without changes.
showNotification(ns, entry) ==
  IF Len(entry.changes) = 0 THEN ns ELSE Append(ns, entry)

\* clearLogs: this.logs = [], then '[]' written when there is a path; a
\* throw of writeFileSync is caught.
clearLogs_AfterWrite(path, file, lg, write) ==
  [logs |-> IF path /\ write = "refused" THEN lg ELSE << >>,
   file |-> IF path /\ write = "written" THEN Serialized(<< >>) ELSE file]
clearLogs(path, file, lg, write) ==
  [logs |-> << >>,
   file |-> IF path /\ write = "written" THEN Serialized(<< >>) ELSE file]

\* The LogService as constructed: no call yet.
NewLogCall ==
  [op |-> "new", entry |-> LogEntry(Undefined, << >>, "initial"),
   wrote |-> "none", threw |-> FALSE, logsBefore |-> << >>,
   fileBefore |-> NoLogFile, noticesBefore |-> << >>, loaded |-> << >>,
   appended |-> << >>, count |-> 0]

\* initialize(): the path when a workspace folder is open, then loadLogs.
Initialize(workspace) ==
  /\ logCall.op = "new"
  /\ logFilePath' = workspace
  /\ logs' = loadLogs(workspace, logFile, logs)
  /\ logCall' = [NewLogCall EXCEPT !.op = "initialize", !.loaded = logs',
                                   !.fileBefore = logFile]
  /\ UNCHANGED <<logFile, notices>>

\* logConfigChange(entry): push, writeToFile, then the notification.
LogConfigChange(entry, write) ==
  /\ logCall.op # "new"
  /\ logs' = logConfigChange(logs, entry)
  /\ logFile' = writeToFile(logFilePath, logFile, logs', write)
  /\ notices' = IF shouldNotify(entry) THEN showNotification(notices, entry)
                ELSE notices
  /\ logCall' = [logCall EXCEPT
                   !.op = "logConfigChange", !.entry = entry,
                   !.wrote = wrote(logFilePath, write), !.threw = FALSE,
                   !.logsBefore = logs, !.fileBefore = logFile,
                   !.noticesBefore = notices,
                   !.appended = Append(@, entry), !.count = @ + 1]
  /\ UNCHANGED logFilePath

\* clearLogs()
ClearLogs(write) ==
  /\ logCall.op # "new"
  /\ LET cleared == clearLogs(logFilePath, logFile, logs, write) IN
       /\ logs' = cleared.logs
       /\ logFile' = cleared.file
  /\ logCall' = [logCall EXCEPT
                   !.op = "clearLogs", !.wrote = wrote(logFilePath, write),
                   !.threw = FALSE, !.logsBefore = logs,
                   !.fileBefore = logFile, !.noticesBefore = notices,
                   !.loaded = << >>, !.appended = << >>, !.count = @ + 1]
  /\ UNCHANGED <<logFilePath, notices>>

\* The clear-logs command: try { await logService.clearLogs();
\* stateTracker.clear(); } catch.  What the tracker holds after it, clearLogs
\* having returned or thrown.
afterClearLogs_Always(states, selected, rejected) == clear(states, selected)
afterClearLogs(states, selected, rejected) ==
  IF rejected THEN [states |-> states, selected |-> selected]
  ELSE clear(states, selected)

\* One run of the command.  clearLogs has emptied the log and written the
\* file before the host call that can make it throw.
clearLogsCommand(write, rejected) ==
  /\ logCall.op # "new"
  /\ LET cleared == clearLogs(logFilePath, logFile, logs, write) IN
       /\ logs' = cleared.logs
       /\ logFile' = cleared.file
  /\ LET r == afterClearLogs(previousStates, currentlySelectedBoard, rejected) IN
       /\ previousStates' = r.states
       /\ currentlySelectedBoard' = r.selected
  /\ observed' = IF rejected THEN observed
                 ELSE [NotObserved EXCEPT
                         !.statesBefore = previousStates,
                         !.selectedBefore = currentlySelectedBoard,
                         !.cleared = previousStates # NoStates]
  /\ logCall' = [logCall EXCEPT
                   !.op = "clearLogsCommand",
                   !.wrote = wrote(logFilePath, write), !.threw = rejected,
                   !.logsBefore = logs, !.fileBefore = logFile,
                   !.noticesBefore = notices,
                   !.loaded = << >>, !.appended = << >>, !.count = @ + 1]
  /\ UNCHANGED <<logFilePath, notices>>

\* ------------------------------------------------------------------------
\* ProfileService.getProfiles, getDefaultProfileName, getActiveProfile
\* ------------------------------------------------------------------------

\* getProfiles with its try/catch: no profile when readSketchYaml throws.
readProfiles(d, unreadable) == IF unreadable THEN {} ELSE getProfiles(d)

\* getDefaultProfileName: yamlContent?.default_profile || 'default';
\* undefined without a file or when readSketchYaml throws.
getDefaultProfileName_NoFallback(d, unreadable) ==
  IF ~d.present \/ unreadable THEN Undefined ELSE d.default_profile
getDefaultProfileName(d, unreadable) ==
  IF ~d.present \/ unreadable THEN Undefined
  ELSE IF d.default_profile \in {Undefined, ""} THEN DEFAULT_PROFILE_NAME
  ELSE d.default_profile

\* getActiveProfile: the name of the profile it returns, or Undefined.
getActiveProfile(d, unreadable) ==
  LET profiles == readProfiles(d, unreadable) IN
  IF profiles = {} THEN Undefined
  ELSE LET defaultProfileName == getDefaultProfileName(d, unreadable) IN
       IF defaultProfileName = Undefined THEN Undefined
       ELSE IF defaultProfileName \in profiles THEN defaultProfileName
       ELSE Undefined

\* One call of getActiveProfile, then of getProfiles, on the document as it
\* is; readSketchYaml throws on a file it cannot parse.
ReadActiveProfile(unreadable) ==
  /\ unreadable => doc.present
  /\ lastOp' = [op |-> "getActiveProfile",
                 name |-> getActiveProfile(doc, unreadable),
                 boardDetails |-> NoBoardDetails, before |-> doc,
                 unreadable |-> unreadable,
                 profiles |-> readProfiles(doc, unreadable)]
  /\ doc' = doc

\* ------------------------------------------------------------------------
\* ProfileService.applyDefaultProfile
\* ------------------------------------------------------------------------

\* if (apply !== 'Yes') return false
declined_OnlyNo(answer) == answer = "No"
declined(answer) == answer # "Yes"

\* applyDefaultProfile(silent, promptUser) up to its first await of the
\* host: a return of false, the confirmation, or applyFqbn's first
\* getCommands.
applyDefaultProfile(promptUser) ==
  LET name == getDefaultProfileName(doc, FALSE)
      call == [NoDefaultCall EXCEPT !.promptUser = promptUser,
                                    !.docBefore = doc, !.syncBefore = syncVars]
  IN
  /\ ~defaultCall.awaiting
  /\ pc \in {"idle", "done"}
  /\ IF name = Undefined \/ profileUnusable(doc, name)
     THEN /\ defaultCall' = [call EXCEPT !.returned = "false"]
          /\ UNCHANGED syncVars
     ELSE IF promptUser
     THEN /\ defaultCall' = [call EXCEPT !.awaiting = TRUE,
                                         !.fqbn = doc.profiles[name].fqbn]
          /\ UNCHANGED syncVars
     ELSE /\ defaultCall' = [call EXCEPT !.fqbn = doc.profiles[name].fqbn]
          /\ StartApplyFqbn(doc.profiles[name].fqbn, << >>)

\* The confirmation is answered: 'Yes', 'No', or dismissed.
ConfirmAnswered(answer) ==
  /\ defaultCall.awaiting
  /\ IF declined(answer)
     THEN /\ defaultCall' = [defaultCall EXCEPT
                               !.awaiting = FALSE, !.answered = TRUE,
                               !.answer = answer, !.returned = "false"]
          /\ UNCHANGED syncVars
     ELSE /\ defaultCall' = [defaultCall EXCEPT
                               !.awaiting = FALSE, !.answered = TRUE,
                               !.answer = answer]
          /\ StartApplyFqbn(defaultCall.fqbn, << >>)

\* ------------------------------------------------------------------------
\* ProfileService.createConfiguration
\* ------------------------------------------------------------------------

\* { fqbn, platforms: [{ platform: platformString }], libraries: [] }
newProfile(fqbn, platformVersion) ==
  [fqbn |-> fqbn,
   platforms |->
     <<[platform |-> formatPlatformString(extractPlatformId(fqbn), platformVersion)]>>,
   libraries |-> << >>]

\* generateSketchYamlContent: the profile "default" alone, its platform
\* version by getPlatformVersion, and default_profile.
generateSketchYamlContent(fqbn, boardDetails) ==
  [present |-> TRUE,
   profiles |->
     [n \in {DEFAULT_PROFILE_NAME} |->
        newProfile(fqbn, getPlatformVersion(boardDetails.buildProperties,
                                            extractPlatformId(fqbn)))],
   default_profile |-> DEFAULT_PROFILE_NAME]

\* createSketchYaml throws: no board selected, or no complete FQBN.
createSketchYamlThrows(fqbn, boardDetails) ==
  fqbn \in {Undefined, ""} \/ buildCompleteFqbn(boardDetails) = NoFqbn

\* addProfileToSketchYaml: profiles[profileName] = the new record, its
\* platform version boardDetails.buildProperties['version'].
addProfileToSketchYaml(d, name, fqbn, boardDetails) ==
  LET record == newProfile(fqbn, boardDetails.buildProperties.version)
      old == d.profiles
  IN  [d EXCEPT !.profiles =
         [n \in DOMAIN old \cup {name} |-> IF n = name THEN record ELSE old[n]]]

\* profiles.some(p => p.name === profileName), over getProfiles()
alreadyExists(d, name) == name \in getProfiles(d)

\* createConfiguration is called: it asks whether to create sketch.yaml when
\* there is none, for the profile name otherwise.
\* What createConfiguration has shown once it shows the messages kinds:
\* "question" for a message with buttons whose answer it awaits,
\* "information" for showInformationMessage without buttons, "error" for
\* showErrorMessage.
show(kinds) == [called |-> TRUE, messages |-> shown.messages \o kinds]

CallCreateConfiguration ==
  /\ createPc = NoCreate
  /\ createPc' = IF doc.present THEN "askName" ELSE "askCreate"
  /\ shown' = [called |-> TRUE,
               messages |-> IF doc.present THEN << >> ELSE <<"question">>]
  /\ createName' = Undefined
  /\ lastOp' = NoOp
  /\ doc' = doc

\* The answer to 'No sketch.yaml found. Would you like to create one?'
CreateFileAnswered(answer) ==
  /\ createPc = "askCreate"
  /\ createName' = Undefined
  /\ lastOp' = [op |-> "createSketchYaml", name |-> answer,
                 boardDetails |-> ideDetails, before |-> doc]
  /\ shown' = IF answer # "Yes" THEN shown
               ELSE IF createSketchYamlThrows(ideFqbn, ideDetails)
                    THEN show(<<"error">>)
                    ELSE show(<<"information">>)
  /\ IF answer # "Yes" \/ createSketchYamlThrows(ideFqbn, ideDetails)
     THEN createPc' = NoCreate /\ doc' = doc
     ELSE /\ createPc' = "askName"
          /\ doc' = generateSketchYamlContent(buildCompleteFqbn(ideDetails),
                                              ideDetails)

\* The input box returns: from the name to the new profile in sketch.yaml,
\* or to one of the returns before it.
ProfileNameEntered(name) ==
  /\ createPc = "askName"
  /\ lastOp' = [op |-> "createConfiguration", name |-> name,
                 boardDetails |-> ideDetails, before |-> doc]
  /\ IF \/ name \in {Undefined, ""}
        \/ alreadyExists(doc, name)
        \/ ideFqbn \in {Undefined, ""}
        \/ ~ideDetails.present
        \/ buildCompleteFqbn(ideDetails) = NoFqbn
        \/ ~doc.present
     THEN /\ createPc' = NoCreate /\ createName' = Undefined /\ doc' = doc
          /\ shown' = IF name \in {Undefined, ""} THEN shown
                       ELSE show(<<"error">>)
     ELSE /\ doc' = addProfileToSketchYaml(doc, name,
                                           buildCompleteFqbn(ideDetails), ideDetails)
          /\ createName' = name
          /\ createPc' = "askSwitch"
          /\ shown' = show(<<"question">>)

\* The answer to 'Switch to it now?'
SwitchAnswered(answer) ==
  /\ createPc = "askSwitch"
  /\ createPc' = NoCreate
  /\ createName' = Undefined
  /\ lastOp' = [op |-> "switchToProfile", name |-> createName,
                 boardDetails |-> ideDetails, before |-> doc]
  /\ doc' = IF answer = "Yes" THEN updateDefaultProfile(doc, createName) ELSE doc
  /\ shown' = IF answer = "Yes" THEN show(<<"information">>) ELSE shown

\* ------------------------------------------------------------------------
\* Specifications
\* ------------------------------------------------------------------------

SyncIdle ==
  /\ pc = "idle"
  /\ target = TargetShort
  /\ idx = 0
  /\ elapsed = 0
  /\ result = EmptyResult
  /\ bus = << >>
  /\ regAtCall = {}

SyncInit ==
  /\ registry \in SUBSET AllCommands
  /\ SyncIdle

NoAction ==
  [states |-> NoStates, selected |-> Undefined, doc |-> NoDoc, logsLen |-> 0,
   detects |-> 0, fired |-> << >>, initial |-> FALSE, action |-> 0]

\* No IDE context, no sketch.yaml, nothing logged, no profile applied.
VaultIdle ==
  /\ ideFqbn = Undefined
  /\ ideDetails = NoBoardDetails
  /\ pending = << >>
  /\ logs = << >>
  /\ doc = NoDoc
  /\ autoUpdate = TRUE
  /\ started = FALSE
  /\ lastOp = NoOp
  /\ sinceAction = NoAction

ProfileIdle ==
  /\ profileName = Undefined
  /\ docAtCall = NoDoc
  /\ calls = 0
  /\ suspended = << >>

NoCall == [target |-> TargetShort, registry |-> {}, bus |-> << >>,
           result |-> EmptyResult, returned |-> FALSE]

HistoryIdle ==
  /\ polls = 0
  /\ regAtSelect = {}
  /\ lastCall = NoCall

ServiceIdle ==
  /\ logFilePath = FALSE
  /\ logFile = NoLogFile
  /\ notices = << >>
  /\ logCall = NewLogCall
  /\ createPc = NoCreate
  /\ createName = Undefined
  /\ shown = NoShown
  /\ codec = NoCodec
  /\ defaultCall = NoDefaultCall

Init ==
  SyncInit /\ TrackerInit /\ VaultIdle /\ ProfileIdle /\ HistoryIdle /\ ServiceIdle

syncFrame ==
  <<registry, trackerVars, hostVars, vaultVars, profileVars, historyVars, serviceVars>>

SyncCall == \E t \in Targets : CallApplyFqbn(t) /\ UNCHANGED syncFrame
SyncPollThrows == PollThrows /\ UNCHANGED syncFrame
SyncPollFinds == PollFinds /\ UNCHANGED syncFrame
SyncPollMisses == \E d \in SleepDelays : PollMisses(d) /\ UNCHANGED syncFrame
SyncExecBoard == \E ok \in BOOLEAN : ExecBoardReturns(ok) /\ UNCHANGED syncFrame
SyncOptListThrows == OptListThrows /\ UNCHANGED syncFrame
SyncOptListMisses == OptListMisses /\ UNCHANGED syncFrame
SyncOptListFinds == OptListFinds /\ UNCHANGED syncFrame
SyncOptExec == \E ok \in BOOLEAN : OptExecReturns(ok) /\ UNCHANGED syncFrame
SyncRegister ==
  \E c \in AllCommands :
    RegisterCommand(c)
    /\ UNCHANGED <<syncVars, trackerVars, hostVars, vaultVars, profileVars,
                   historyVars, serviceVars>>

SyncNext ==
  \/ SyncCall
  \/ SyncPollThrows
  \/ SyncPollFinds
  \/ SyncPollMisses
  \/ SyncExecBoard
  \/ SyncOptListThrows
  \/ SyncOptListMisses
  \/ SyncOptListFinds
  \/ SyncOptExec
  \/ SyncRegister

SpecSync == Init /\ [][SyncNext]_vars

\* The board-select commands of the boards of the inputs.
BoardCommands == { selectBoardCommandId(b) : b \in BoardIds }

\* applyFqbn with its wait observed: the lookups of waitForCommand are
\* counted, and the host registers board commands at any time.  The host
\* answers every getCommands and executeCommand and fires every
\* timer, so a call in flight always takes its next step.
waitFrame ==
  <<registry, trackerVars, hostVars, vaultVars, profileVars, lastCall,
   serviceVars>>

WaitCall ==
  \E t \in Targets :
    /\ CallApplyFqbn(t)
    /\ polls' = 0
    /\ UNCHANGED <<waitFrame, regAtSelect>>

WaitPollThrows ==
  PollThrows /\ polls' = polls + 1 /\ UNCHANGED <<waitFrame, regAtSelect>>

WaitPollFinds ==
  PollFinds /\ polls' = polls + 1 /\ UNCHANGED <<waitFrame, regAtSelect>>

WaitPollMisses ==
  \E d \in SleepDelays :
    PollMisses(d) /\ polls' = polls + 1 /\ UNCHANGED <<waitFrame, regAtSelect>>

WaitRegister ==
  \E c \in BoardCommands :
    RegisterCommand(c)
    /\ UNCHANGED <<syncVars, trackerVars, hostVars, vaultVars, profileVars,
                   historyVars, serviceVars>>

WaitStep ==
  \/ WaitPollThrows
  \/ WaitPollFinds
  \/ WaitPollMisses
  \/ SyncExecBoard
  \/ SyncOptListThrows
  \/ SyncOptListMisses
  \/ SyncOptListFinds
  \/ SyncOptExec

WaitNext ==
  \/ WaitCall
  \/ WaitStep
  \/ WaitRegister

SpecWait == Init /\ [][WaitNext]_vars /\ WF_vars(WaitStep)

\* applyFqbn with the registry recorded when the board command returns,
\* while the host registers commands at any time.
selectFrame ==
  <<registry, trackerVars, hostVars, vaultVars, profileVars, polls, lastCall,
   serviceVars>>

SelectCall ==
  \E t \in Targets :
    CallApplyFqbn(t) /\ regAtSelect' = {} /\ UNCHANGED selectFrame

SelectExecBoard ==
  \E ok \in BOOLEAN :
    ExecBoardReturns(ok) /\ regAtSelect' = registry /\ UNCHANGED selectFrame

SelectNext ==
  \/ SelectCall
  \/ SyncPollThrows
  \/ SyncPollFinds
  \/ SyncPollMisses
  \/ SelectExecBoard
  \/ SyncOptListThrows
  \/ SyncOptListMisses
  \/ SyncOptListFinds
  \/ SyncOptExec
  \/ SyncRegister

SpecSelect == Init /\ [][SelectNext]_vars

\* applyFqbn called twice in a row with the same target, the first call
\* kept for comparison, while the host registers commands at any time.
twiceFrame ==
  <<registry, trackerVars, hostVars, vaultVars, profileVars, polls,
    regAtSelect, serviceVars>>

TwiceRegistries == {{}, BoardCommands, AllCommands}

InitTwice ==
  /\ registry \in TwiceRegistries
  /\ SyncIdle
  /\ TrackerInit
  /\ VaultIdle
  /\ ProfileIdle
  /\ HistoryIdle
  /\ ServiceIdle

TwiceCall ==
  \E t \in Targets :
    /\ pc = "idle"
    /\ CallApplyFqbn(t)
    /\ UNCHANGED <<twiceFrame, lastCall>>

TwiceCallAgain ==
  /\ pc = "done"
  /\ ~lastCall.returned
  /\ lastCall' = [target |-> target, registry |-> regAtCall, bus |-> bus,
                  result |-> result, returned |-> TRUE]
  /\ CallApplyFqbn(target)
  /\ UNCHANGED twiceFrame

TwiceNext ==
  \/ TwiceCall
  \/ TwiceCallAgain
  \/ SyncPollThrows
  \/ SyncPollFinds
  \/ SyncPollMisses
  \/ SyncExecBoard
  \/ SyncOptListThrows
  \/ SyncOptListMisses
  \/ SyncOptListFinds
  \/ SyncOptExec
  \/ SyncRegister

SpecTwice == InitTwice /\ [][TwiceNext]_vars

\* applyFqbn on targets with two options, the option names plain or array
\* indices, against any registry of their commands.
OrderTargets == {TargetEsp2, TargetIndexed}

OrderCommands == UNION { CommandsOf(t) : t \in OrderTargets }

InitOrder ==
  /\ registry \in SUBSET OrderCommands
  /\ SyncIdle
  /\ TrackerInit
  /\ VaultIdle
  /\ ProfileIdle
  /\ HistoryIdle
  /\ ServiceIdle

OrderCall == \E t \in OrderTargets : CallApplyFqbn(t) /\ UNCHANGED syncFrame

OrderNext ==
  \/ OrderCall
  \/ SyncPollThrows
  \/ SyncPollFinds
  \/ SyncPollMisses
  \/ SyncExecBoard
  \/ SyncOptListThrows
  \/ SyncOptListMisses
  \/ SyncOptListFinds
  \/ SyncOptExec

SpecOrder == InitOrder /\ [][OrderNext]_vars

\* The tracker alone, called with any board identifier and any board details.
trackerFrame ==
  <<registry, syncVars, hostVars, vaultVars, profileVars, historyVars, serviceVars>>

TrackerObserve ==
  \E fqbn \in BoardIds : \E boardDetails \in BoardDetailsValues :
    Observe(fqbn, boardDetails) /\ UNCHANGED trackerFrame

TrackerObserveAbsent ==
  \E fqbn \in BoardIds :
    Observe(fqbn, NoBoardDetails) /\ UNCHANGED trackerFrame

TrackerClear == Clear /\ UNCHANGED trackerFrame

TrackerNext ==
  \/ TrackerObserve
  \/ TrackerObserveAbsent
  \/ TrackerClear

InitTracker ==
  /\ registry = {}
  /\ SyncIdle
  /\ TrackerInit
  /\ VaultIdle
  /\ ProfileIdle
  /\ HistoryIdle
  /\ ServiceIdle

SpecTracker == InitTracker /\ [][TrackerNext]_vars

\* The event handlers: the user acts in the IDE, the IDE delivers the
\* updates, the extension starts up at some point.
IdeContexts ==
  {<<Undefined, NoBoardDetails>>,
   <<EspFqbn, EspDetails({"921600"}, {"hwcdc"})>>}

SelectionKeys ==
  {<<"fqbn", "boardDetails">>, <<"boardDetails", "fqbn">>,
   <<"boardDetails">>, <<"fqbn">>}

InitEvents ==
  /\ registry = {}
  /\ SyncIdle
  /\ TrackerInit
  /\ ProfileIdle
  /\ HistoryIdle
  /\ ServiceIdle
  /\ \E c \in IdeContexts : ideFqbn = c[1] /\ ideDetails = c[2]
  /\ pending = << >>
  /\ logs = << >>
  /\ doc = Doc("uno")
  /\ autoUpdate \in BOOLEAN
  /\ started = FALSE
  /\ lastOp = NoOp
  /\ sinceAction = [NoAction EXCEPT !.doc = Doc("uno")]

eventsFrame == <<registry, syncVars, profileVars, historyVars, serviceVars>>

\* What ran since the user acted, the delivery of the first pending update
\* included.
Ran(key) ==
  [sinceAction EXCEPT !.fired = Append(@, key), !.detects = Delivered.detects]

EventsUserSelects ==
  \E boardDetails \in IdeDetails : \E keys \in SelectionKeys :
    \E joint \in BOOLEAN :
      UserSelects(boardDetails.fqbn, boardDetails, keys, joint)
      /\ UNCHANGED eventsFrame

EventsUserPicksPort == UserPicksPort /\ UNCHANGED eventsFrame

EventsFireFqbn ==
  Fire("fqbn") /\ sinceAction' = Ran("fqbn") /\ UNCHANGED eventsFrame

EventsFireDetails ==
  Fire("boardDetails") /\ sinceAction' = Ran("boardDetails")
  /\ UNCHANGED eventsFrame

EventsFirePort ==
  Fire("port") /\ sinceAction' = Ran("port") /\ UNCHANGED eventsFrame

EventsStartup ==
  Startup /\ sinceAction' = [sinceAction EXCEPT !.initial = TRUE]
  /\ UNCHANGED eventsFrame

EventsNext ==
  \/ EventsUserSelects
  \/ EventsUserPicksPort
  \/ EventsFireFqbn
  \/ EventsFireDetails
  \/ EventsFirePort
  \/ EventsStartup

SpecEvents == InitEvents /\ [][EventsNext]_vars

\* The operations on sketch.yaml on their own, on any document.
PartialProfiles ==
  [n \in {"uno", "bench"} |-> Profiles[n]]

YamlDocs ==
  {NoDoc}
  \cup { Doc(dp) : dp \in {Undefined, "default", "uno", "bench", "gone"} }
  \cup { [present |-> TRUE, profiles |-> PartialProfiles, default_profile |-> dp] :
           dp \in {Undefined, "bench"} }
  \cup {[present |-> TRUE, profiles |-> NoProfiles, default_profile |-> Undefined]}

\* Board details with other build properties: none, or a path that is not
\* the platform's.
YamlDetails ==
  IdeDetails \cup {NoBoardDetails}
  \cup { [d EXCEPT !.buildProperties = bp] :
           d \in IdeDetails,
           bp \in {NoBuildProperties,
                   [path |-> <<"", "packages", "arduino", "hardware", "avr", "1.8.7">>,
                    version |-> Undefined]} }

InitYaml ==
  /\ registry = {}
  /\ SyncIdle
  /\ TrackerInit
  /\ ProfileIdle
  /\ HistoryIdle
  /\ ServiceIdle
  /\ ideFqbn = Undefined
  /\ ideDetails = NoBoardDetails
  /\ pending = << >>
  /\ logs = << >>
  /\ doc \in YamlDocs
  /\ autoUpdate = TRUE
  /\ started = FALSE
  /\ lastOp = NoOp
  /\ sinceAction = NoAction

yamlFrame ==
  <<registry, syncVars, trackerVars, hostVars, logs, autoUpdate, started,
    sinceAction, profileVars, historyVars, serviceVars>>

YamlUpdateFqbn ==
  \E boardDetails \in YamlDetails :
    /\ doc' = updateSketchYamlFqbn(doc, boardDetails)
    /\ lastOp' = [op |-> "updateSketchYamlFqbn", name |-> Undefined,
                   boardDetails |-> boardDetails, before |-> doc]
    /\ UNCHANGED yamlFrame

YamlUpdateDefaultProfile ==
  \E name \in ProfileNames \cup {"gone"} :
    /\ doc' = updateDefaultProfile(doc, name)
    /\ lastOp' = [op |-> "updateDefaultProfile", name |-> name,
                   boardDetails |-> NoBoardDetails, before |-> doc]
    /\ UNCHANGED yamlFrame

YamlNext ==
  \/ YamlUpdateFqbn
  \/ YamlUpdateDefaultProfile

SpecYaml == InitYaml /\ [][YamlNext]_vars

\* The profile switch: applyProfile is called, one call at a time; the
\* commands it executes make the IDE send updates, delivered at any later
\* point between two steps of the call or after it.
ProfileRegistries == {AllCommands, BoardCommands, {}}

ProfileContexts ==
  {<<Undefined, NoBoardDetails>>,
   <<UnoFqbn, UnoDetails>>,
   <<EspFqbn, EspDetails({"921600"}, {"hwcdc"})>>}

ProfileDocs == {NoDoc} \cup { Doc(dp) : dp \in {Undefined, "uno", "bench"} }

InitProfile ==
  /\ registry \in ProfileRegistries
  /\ SyncIdle
  /\ TrackerInit
  /\ ProfileIdle
  /\ HistoryIdle
  /\ ServiceIdle
  /\ \E c \in ProfileContexts : ideFqbn = c[1] /\ ideDetails = c[2]
  /\ pending = << >>
  /\ logs = << >>
  /\ doc \in ProfileDocs
  /\ autoUpdate = TRUE
  /\ started = FALSE
  /\ lastOp = NoOp
  /\ sinceAction = NoAction

\* What a step of applyFqbn leaves alone when it executes no command.
profileFrame ==
  <<registry, trackerVars, hostVars, vaultVars, profileVars, historyVars, serviceVars>>

\* What a step that executes a command leaves alone.
execFrame ==
  <<registry, trackerVars, ideFqbn, ideDetails, vaultVars, profileVars,
    historyVars, serviceVars>>

\* What the delivery of an update leaves alone.
fireFrame == <<registry, syncVars, sinceAction, profileVars, historyVars, serviceVars>>

ProfileCall ==
  \E name \in ProfileNames \cup {"gone"} :
    CallApplyProfile(name)
    /\ UNCHANGED <<registry, trackerVars, hostVars, logs, autoUpdate, started,
                   lastOp, sinceAction, historyVars, serviceVars>>

ProfilePollThrows == PollThrows /\ UNCHANGED profileFrame
ProfilePollFinds == PollFinds /\ UNCHANGED profileFrame
ProfilePollMisses ==
  \E d \in SleepDelays : PollMisses(d) /\ UNCHANGED profileFrame

ProfileExecBoard ==
  \E ok \in BOOLEAN :
    /\ ExecBoardReturns(ok)
    /\ \E ups \in (IF ok THEN BoardUpdates(baseFqbn) ELSE {<< >>}) : Enqueue(ups)
    /\ UNCHANGED execFrame

ProfileOptListThrows == OptListThrows /\ UNCHANGED profileFrame
ProfileOptListMisses == OptListMisses /\ UNCHANGED profileFrame
ProfileOptListFinds == OptListFinds /\ UNCHANGED profileFrame

ProfileOptExec ==
  \E ok \in BOOLEAN :
    /\ OptExecReturns(ok)
    /\ \E ups \in (IF ok
                    THEN OptionUpdates(options[idx].option, options[idx].value)
                    ELSE {<< >>}) : Enqueue(ups)
    /\ UNCHANGED execFrame

ProfileFireFqbn == Fire("fqbn") /\ UNCHANGED fireFrame

ProfileFireDetails == Fire("boardDetails") /\ UNCHANGED fireFrame

ProfileStartup == Startup /\ UNCHANGED fireFrame

ProfileNext ==
  \/ ProfileCall
  \/ ProfilePollThrows
  \/ ProfilePollFinds
  \/ ProfilePollMisses
  \/ ProfileExecBoard
  \/ ProfileOptListThrows
  \/ ProfileOptListMisses
  \/ ProfileOptListFinds
  \/ ProfileOptExec
  \/ ProfileFireFqbn
  \/ ProfileFireDetails
  \/ ProfileStartup

SpecProfile == InitProfile /\ [][ProfileNext]_vars

\* The profile switch with an IDE that applies every command it executes
\* and then sends the board details of the resulting selection; after a
\* board-select command it sets arduinoContext.fqbn first ("FQBN change
\* event fires ..., boardDetails change event fires afterward").  The
\* callback of logService.initialize() in activate runs before any command
\* of the user.
ReplayExecBoard ==
  \E ok \in BOOLEAN :
    /\ ExecBoardReturns(ok)
    /\ Enqueue(IF ok
               THEN <<FqbnUpdate(baseFqbn), DetailsUpdate(DefaultDetails(baseFqbn))>>
               ELSE << >>)
    /\ UNCHANGED execFrame

ReplayStartup == calls = 0 /\ ProfileStartup

ReplayOptExec ==
  \E ok \in BOOLEAN :
    /\ OptExecReturns(ok)
    /\ \E ups \in (IF ok
                    THEN OptionUpdates(options[idx].option, options[idx].value)
                           \ {<< >>}
                    ELSE {<< >>}) : Enqueue(ups)
    /\ UNCHANGED execFrame

ReplayNext ==
  \/ ProfileCall
  \/ ProfilePollThrows
  \/ ProfilePollFinds
  \/ ProfilePollMisses
  \/ ReplayExecBoard
  \/ ProfileOptListThrows
  \/ ProfileOptListMisses
  \/ ProfileOptListFinds
  \/ ReplayOptExec
  \/ ProfileFireFqbn
  \/ ProfileFireDetails
  \/ ReplayStartup

SpecReplay == InitProfile /\ [][ReplayNext]_vars

\* The profile picker: the user accepts an item at any time, also while an
\* earlier applyProfile call awaits the host.
InitPicker ==
  /\ registry \in ProfileRegistries
  /\ SyncIdle
  /\ TrackerInit
  /\ ProfileIdle
  /\ HistoryIdle
  /\ ServiceIdle
  /\ ideFqbn = Undefined
  /\ ideDetails = NoBoardDetails
  /\ pending = << >>
  /\ logs = << >>
  /\ doc \in ProfileDocs
  /\ autoUpdate = TRUE
  /\ started = FALSE
  /\ lastOp = NoOp
  /\ sinceAction = NoAction

pickerFrame ==
  <<registry, trackerVars, hostVars, logs, autoUpdate, started, lastOp,
    sinceAction, historyVars, serviceVars>>

PickerAccepts ==
  \E name \in ProfileNames : PickerAccept(name) /\ UNCHANGED pickerFrame

PickerResume ==
  \E i \in 1..MaxAccepts : PickerResumes(i) /\ UNCHANGED <<pickerFrame, doc>>

PickerNext ==
  \/ PickerAccepts
  \/ PickerResume
  \/ SyncPollThrows
  \/ SyncPollFinds
  \/ SyncPollMisses
  \/ SyncExecBoard
  \/ SyncOptListThrows
  \/ SyncOptListMisses
  \/ SyncOptListFinds
  \/ SyncOptExec

SpecPicker == InitPicker /\ [][PickerNext]_vars

\* LogService on its own: initialize, then appends and clears, each write
\* of the file returning or throwing.
MaxLogCalls == 3

SampleChange == FqbnChange(UnoFqbn, EspFqbn, UnoFqbn, EspFqbn)

LogEntries ==
  {LogEntry(EspFqbn, << >>, "initial"),
   LogEntry(EspFqbn, <<SampleChange>>, "initial"),
   LogEntry(EspFqbn, <<SampleChange>>, "fqbn"),
   LogEntry(EspFqbn, << >>, "port")}

LogFiles ==
  {NoLogFile, Unparseable, Serialized(<< >>),
   Serialized(<<LogEntry(UnoFqbn, << >>, "initial")>>)}

InitLog ==
  /\ registry = {}
  /\ SyncIdle
  /\ TrackerInit
  /\ VaultIdle
  /\ ProfileIdle
  /\ HistoryIdle
  /\ logFilePath = FALSE
  /\ logFile \in LogFiles
  /\ notices = << >>
  /\ logCall = NewLogCall
  /\ createPc = NoCreate
  /\ createName = Undefined
  /\ shown = NoShown
  /\ codec = NoCodec
  /\ defaultCall = NoDefaultCall

logFrame ==
  <<registry, syncVars, trackerVars, hostVars, doc, autoUpdate, started,
    lastOp, sinceAction, profileVars, historyVars, createPc, createName, shown,
    defaultCall, codec>>

LogInitialize ==
  \E workspace \in BOOLEAN : Initialize(workspace) /\ UNCHANGED logFrame

LogAppend ==
  \E entry \in LogEntries, write \in WriteOutcomes :
    /\ logCall.count < MaxLogCalls
    /\ LogConfigChange(entry, write)
    /\ UNCHANGED logFrame

LogClear ==
  \E write \in WriteOutcomes :
    /\ logCall.count < MaxLogCalls
    /\ ClearLogs(write)
    /\ UNCHANGED logFrame

LogNext == LogInitialize \/ LogAppend \/ LogClear

SpecLog == InitLog /\ [][LogNext]_vars

\* parseFqbn on an FQBN text, and the text put together again from its
\* result.
SegmentWords == {"esp32", "uno"}

SegmentLists == UNION { [1..n -> SegmentWords] : n \in 1..4 }

OptionItems ==
  {<<"UploadSpeed", "=", "921600">>,
   <<"USBMode", "=", "hwcdc">>,
   <<"1", "=", "on">>,
   <<"flags", "=", "a", "=", "b">>,
   <<"InvalidOption">>}

ItemLists == UNION { [1..n -> OptionItems] : n \in 0..2 }

RECURSIVE joinTokens(_, _)
joinTokens(list, sep) ==
  IF Len(list) = 0 THEN << >>
  ELSE IF Len(list) = 1 THEN list[1]
  ELSE list[1] \o <<sep>> \o joinTokens(Tail(list), sep)

FqbnText(segs, items) ==
  joinTokens([i \in DOMAIN segs |-> <<segs[i]>>], ":")
    \o (IF Len(items) = 0 THEN << >> ELSE <<":">> \o joinTokens(items, ","))

FqbnTexts == { FqbnText(segs, items) : segs \in SegmentLists, items \in ItemLists }

InitCodec ==
  /\ registry = {}
  /\ SyncIdle
  /\ TrackerInit
  /\ VaultIdle
  /\ ProfileIdle
  /\ HistoryIdle
  /\ logFilePath = FALSE
  /\ logFile = NoLogFile
  /\ notices = << >>
  /\ logCall = NewLogCall
  /\ createPc = NoCreate
  /\ createName = Undefined
  /\ shown = NoShown
  /\ defaultCall = NoDefaultCall
  /\ \E text \in FqbnTexts : codec = [NoCodec EXCEPT !.text = text]

codecFrame ==
  <<registry, syncVars, trackerVars, hostVars, vaultVars, profileVars,
    historyVars, logFilePath, logFile, notices, logCall, createPc, createName, shown,
    defaultCall>>

CodecParse ==
  /\ ~codec.called
  /\ codec' = [codec EXCEPT !.called = TRUE,
                            !.parsed = parseFqbn(pieces(codec.text))]
  /\ UNCHANGED codecFrame

CodecReassemble ==
  /\ codec.called
  /\ codec.parsed.valid
  /\ ~codec.reassembled
  /\ codec' = [codec EXCEPT !.reassembled = TRUE,
                            !.rebuilt = reassemble(codec.parsed)]
  /\ UNCHANGED codecFrame

CodecNext == CodecParse \/ CodecReassemble

SpecCodec == InitCodec /\ [][CodecNext]_vars

\* The clear-logs command between observations of the tracker, on a
\* LogService that is initialized; clearLogs returns or throws.
ClearContexts ==
  {<<UnoFqbn, UnoDetails>>,
   <<EspFqbn, EspDetails({"921600"}, {"hwcdc"})>>,
   <<EspFqbn, EspDetails({"460800"}, {"hwcdc"})>>}

InitClear ==
  /\ registry = {}
  /\ SyncIdle
  /\ TrackerInit
  /\ ProfileIdle
  /\ HistoryIdle
  /\ ideFqbn = Undefined
  /\ ideDetails = NoBoardDetails
  /\ pending = << >>
  /\ logs \in {<< >>, <<LogEntry(UnoFqbn, << >>, "initial")>>}
  /\ doc = NoDoc
  /\ autoUpdate = TRUE
  /\ started = FALSE
  /\ lastOp = NoOp
  /\ sinceAction = NoAction
  /\ logFilePath = TRUE
  /\ logFile = Serialized(logs)
  /\ notices = << >>
  /\ logCall = [NewLogCall EXCEPT !.op = "initialize", !.loaded = logs,
                                  !.fileBefore = logFile]
  /\ createPc = NoCreate
  /\ createName = Undefined
  /\ shown = NoShown
  /\ codec = NoCodec
  /\ defaultCall = NoDefaultCall

ClearObserve ==
  \E c \in ClearContexts :
    Observe(c[1], c[2]) /\ UNCHANGED trackerFrame

ClearCommand ==
  \E write \in WriteOutcomes, rejected \in BOOLEAN :
    /\ logCall.count < MaxLogCalls
    /\ clearLogsCommand(write, rejected)
    /\ UNCHANGED <<registry, syncVars, hostVars, doc, autoUpdate, started,
                   lastOp, sinceAction, profileVars, historyVars, createPc,
                   createName, shown, defaultCall, codec>>

ClearNext == ClearObserve \/ ClearCommand

SpecClear == InitClear /\ [][ClearNext]_vars

\* applyDefaultProfile, with and without the confirmation, one call at a
\* time, through the applyFqbn call it makes.
Answers == {"Yes", "No", Undefined}

InitDefault ==
  /\ registry \in ProfileRegistries
  /\ SyncIdle
  /\ TrackerInit
  /\ ProfileIdle
  /\ HistoryIdle
  /\ ServiceIdle
  /\ ideFqbn = Undefined
  /\ ideDetails = NoBoardDetails
  /\ pending = << >>
  /\ logs = << >>
  /\ doc \in ProfileDocs \cup {Doc("gone")}
  /\ autoUpdate = TRUE
  /\ started = FALSE
  /\ lastOp = NoOp
  /\ sinceAction = NoAction

defaultFrame ==
  <<registry, trackerVars, hostVars, vaultVars, profileName, docAtCall,
    suspended, historyVars, logFilePath, logFile, notices, logCall, createPc,
    createName, shown, codec>>

DefaultCall ==
  \E promptUser \in BOOLEAN :
    /\ calls < MaxCalls
    /\ calls' = calls + 1
    /\ applyDefaultProfile(promptUser)
    /\ UNCHANGED defaultFrame

DefaultAnswered ==
  \E answer \in Answers :
    ConfirmAnswered(answer) /\ UNCHANGED <<defaultFrame, calls>>

DefaultNext ==
  \/ DefaultCall
  \/ DefaultAnswered
  \/ SyncPollThrows
  \/ SyncPollFinds
  \/ SyncPollMisses
  \/ SyncExecBoard
  \/ SyncOptListThrows
  \/ SyncOptListMisses
  \/ SyncOptListFinds
  \/ SyncOptExec

SpecDefault == InitDefault /\ [][DefaultNext]_vars

\* createConfiguration, one call at a time, on any document.
BareProfiles ==
  [n \in {"default", "bare"} |->
     IF n = "bare"
     THEN [fqbn |-> NoFqbn, platforms |-> <<UnoPlatform>>,
           libraries |-> <<"ArduinoJson (7.2.1)">>]
     ELSE Profiles[n]]

BareDoc(defaultProfile) ==
  [present |-> TRUE, profiles |-> BareProfiles, default_profile |-> defaultProfile]

CreateDocs ==
  {NoDoc, Doc(Undefined), Doc("uno"), Doc("gone"), BareDoc("default"),
   BareDoc("bare"),
   [present |-> TRUE, profiles |-> NoProfiles, default_profile |-> Undefined]}

CreateContexts ==
  {<<Undefined, NoBoardDetails>>,
   <<UnoFqbn, UnoDetails>>,
   <<UnoFqbn, [UnoDetails EXCEPT !.buildProperties =
                 [path |-> <<"", "packages", "arduino", "hardware", "avr", "1.8.7">>,
                  version |-> Undefined]]>>,
   <<EspFqbn, EspDetails({"921600"}, {"hwcdc"})>>}

CreateNames == {Undefined, "bench", "bare", "prod"}

InitCreate ==
  /\ registry = {}
  /\ SyncIdle
  /\ TrackerInit
  /\ ProfileIdle
  /\ HistoryIdle
  /\ ServiceIdle
  /\ \E c \in CreateContexts : ideFqbn = c[1] /\ ideDetails = c[2]
  /\ pending = << >>
  /\ logs = << >>
  /\ doc \in CreateDocs
  /\ autoUpdate = TRUE
  /\ started = FALSE
  /\ lastOp = NoOp
  /\ sinceAction = NoAction

createFrame ==
  <<registry, syncVars, trackerVars, hostVars, logs, autoUpdate, started,
    sinceAction, profileVars, historyVars, logFilePath, logFile, notices,
    logCall, defaultCall, codec>>

CreateCall == CallCreateConfiguration /\ UNCHANGED createFrame

CreateFile ==
  \E answer \in Answers : CreateFileAnswered(answer) /\ UNCHANGED createFrame

CreateName ==
  \E name \in CreateNames : ProfileNameEntered(name) /\ UNCHANGED createFrame

CreateSwitch ==
  \E answer \in Answers : SwitchAnswered(answer) /\ UNCHANGED createFrame

CreateReadActive ==
  \E unreadable \in BOOLEAN :
    /\ ReadActiveProfile(unreadable)
    /\ UNCHANGED <<createFrame, createPc, createName, shown>>

\* The handlers' updateSketchYamlFqbn, with the board details of the IDE.
CreateUpdateFqbn ==
  /\ doc' = updateSketchYamlFqbn(doc, ideDetails)
  /\ lastOp' = [op |-> "updateSketchYamlFqbn", name |-> Undefined,
                 boardDetails |-> ideDetails, before |-> doc]
  /\ UNCHANGED <<createFrame, createPc, createName, shown>>

CreateNext ==
  \/ CreateUpdateFqbn
  \/ CreateCall
  \/ CreateFile
  \/ CreateName
  \/ CreateSwitch
  \/ CreateReadActive

SpecCreate == InitCreate /\ [][CreateNext]_vars

\* The operations that write sketch.yaml, one after the other:
\* updateDefaultProfile, updateSketchYamlFqbn and createConfiguration in any
\* order and number, then applyProfile, on documents whose default_profile
\* names a profile, names none, or names one without an fqbn.  The host has
\* every command registered.
PointerDocs ==
  {Doc("uno"), Doc("gone"), BareDoc("default"), BareDoc("bare"), NoDoc}

PointerNames == {"uno", "bare", "gone", "prod"}

InitPointer ==
  /\ registry = AllCommands
  /\ SyncIdle
  /\ TrackerInit
  /\ ProfileIdle
  /\ HistoryIdle
  /\ ServiceIdle
  /\ ideFqbn = EspFqbn
  /\ ideDetails = EspDetails({"921600"}, {"hwcdc"})
  /\ pending = << >>
  /\ logs = << >>
  /\ doc \in PointerDocs
  /\ autoUpdate = TRUE
  /\ started = FALSE
  /\ lastOp = NoOp
  /\ sinceAction = NoAction

\* No createConfiguration is in progress and applyProfile was not called.
quiet == calls = 0 /\ createPc = NoCreate

PointerUpdateDefault ==
  \E name \in PointerNames :
    /\ quiet
    /\ doc' = updateDefaultProfile(doc, name)
    /\ lastOp' = [op |-> "updateDefaultProfile", name |-> name,
                   boardDetails |-> NoBoardDetails, before |-> doc]
    /\ UNCHANGED yamlFrame

PointerUpdateFqbn ==
  /\ quiet
  /\ doc' = updateSketchYamlFqbn(doc, ideDetails)
  /\ lastOp' = [op |-> "updateSketchYamlFqbn", name |-> Undefined,
                 boardDetails |-> ideDetails, before |-> doc]
  /\ UNCHANGED yamlFrame

PointerCreate == quiet /\ CreateCall

PointerApply ==
  \E name \in PointerNames :
    /\ quiet
    /\ calls' = calls + 1
    /\ suspended' = suspended
    /\ applyProfile(name)
    /\ UNCHANGED <<registry, trackerVars, hostVars, logs, autoUpdate, started,
                   lastOp, sinceAction, historyVars, serviceVars>>

PointerNext ==
  \/ PointerUpdateDefault
  \/ PointerUpdateFqbn
  \/ PointerCreate
  \/ CreateFile
  \/ CreateName
  \/ CreateSwitch
  \/ PointerApply
  \/ SyncPollThrows
  \/ SyncPollFinds
  \/ SyncExecBoard
  \/ SyncOptListThrows
  \/ SyncOptListFinds
  \/ SyncOptExec

SpecPointer == InitPointer /\ [][PointerNext]_vars

\* ------------------------------------------------------------------------
\* Properties of applyFqbn
\* ------------------------------------------------------------------------

returned == pc = "done"

BoardExecutedOk == Exec(boardCommand, "ok") \in Range(bus)

NoListingThrew == \A i \in DOMAIN bus : bus[i].res # "threw"

EveryExecOk == \A i \in DOMAIN bus : bus[i].op = "exec" => bus[i].res = "ok"

\* The options of the target whose command the registry does not hold.
AbsentOptions == { i \in DOMAIN options : optionCommand(i) \notin registry }

Occurrences(list, i) ==
  Cardinality({ k \in DOMAIN list :
                  /\ list[k].option = options[i].option
                  /\ list[k].value = options[i].value })

\* C3: no option command is looked up or executed unless, earlier in the
\* same call, the board-select command was found and its execution
\* succeeded; and a call of a well-formed target that returns without a
\* successful board selection returns boardSelected = false, success =
\* false, at least one error and no option in either list.
C3_BoardIsPrecondition ==
  /\ \A i \in DOMAIN bus :
       bus[i].cmd # boardCommand =>
         \E j \in 1..(i - 1) :
           /\ bus[j] = Exec(boardCommand, "ok")
           /\ \E k \in 1..(j - 1) : bus[k] = Lookup(boardCommand, "present")
  /\ (returned /\ parsed.valid /\ ~BoardExecutedOk) =>
       /\ ~result.boardSelected
       /\ ~result.success
       /\ result.errors # << >>
       /\ result.optionsApplied = << >>
       /\ result.optionsFailed = << >>

\* The board command never appeared before the timeout although both option
\* commands of the target were registered all along.
C3_Witness ==
  /\ returned
  /\ target = TargetEsp2
  /\ elapsed >= COMMAND_WAIT_TIMEOUT_MS
  /\ \A i \in DOMAIN options : optionCommand(i) \in regAtCall
  /\ bus = << >>

\* C4 as stated: on every return path success = (boardSelected and
\* optionsFailed is empty).
C4_SuccessOnEveryPath ==
  returned =>
    (result.success <=> (result.boardSelected /\ result.optionsFailed = << >>))

\* C4 amended: on every return path success = (boardSelected and
\* optionsFailed is empty and errors is empty).
C4_SuccessUnlessError ==
  returned =>
    (result.success <=>
       (result.boardSelected /\ result.optionsFailed = << >> /\ result.errors = << >>))

\* A listing threw after the board was selected and before any option failed.
C4_Witness ==
  /\ returned
  /\ result.boardSelected
  /\ result.optionsFailed = << >>
  /\ result.errors # << >>
  /\ ~result.success

\* C5 as stated: board selected, N options, K of them with their command
\* absent from the registry (which did not change during the call), every
\* executed command succeeded: optionsFailed has K entries, optionsApplied
\* N - K, and success = (boardSelected and K = 0).
C5_Counts ==
  LET N == Len(options)
      K == Cardinality(AbsentOptions)
  IN  /\ Len(result.optionsFailed) = K
      /\ Len(result.optionsApplied) = N - K
      /\ (result.success <=> (result.boardSelected /\ K = 0))

C6_EachOnce ==
  /\ Len(result.optionsApplied) + Len(result.optionsFailed) = Len(options)
  /\ \A i \in DOMAIN options :
       /\ Occurrences(result.optionsApplied, i) + Occurrences(result.optionsFailed, i) = 1
       /\ \E k \in DOMAIN bus : bus[k].op = "lookup" /\ bus[k].cmd = optionCommand(i)
       /\ Lookup(optionCommand(i), "absent") \in Range(bus)
            => Occurrences(result.optionsFailed, i) = 1
       /\ Exec(optionCommand(i), "failed") \in Range(bus)
            => Occurrences(result.optionsFailed, i) = 1
  /\ \A k \in DOMAIN result.optionsFailed : result.optionsFailed[k].reason # ""

ListingThrew == ~NoListingThrew

\* How many times option i of the target is listed in the result.
Enumerated(i) ==
  Occurrences(result.optionsApplied, i) + Occurrences(result.optionsFailed, i)

\* The exception of a registry listing was caught: the call returned at
\* once, the message is the last of errors, success is false.
C13_Caught ==
  /\ returned
  /\ bus[Len(bus)].res = "threw"
  /\ result.errors # << >>
  /\ result.errors[Len(result.errors)] = HostErrorMessage
  /\ ~result.success

\* C13 as stated: applyFqbn never throws: an exception of a registry
\* listing at any point of the call is caught, its message is appended to
\* errors and a result with success = false is returned, which still lists
\* every option of the target in optionsApplied or optionsFailed.
C13_NeverThrows ==
  ListingThrew => (C13_Caught /\ \A i \in DOMAIN options : Enumerated(i) = 1)

\* C13 amended: the same, but the result lists exactly the options whose
\* turn came before the listing that threw, and none of the later ones.
C13_NeverThrowsPrefix ==
  ListingThrew =>
    (C13_Caught /\
     \A i \in DOMAIN options : Enumerated(i) = (IF i < idx THEN 1 ELSE 0))

\* The listing for the second of two options threw after the first option
\* was applied.
C13_Witness ==
  /\ returned
  /\ ListingThrew
  /\ Len(options) = 2
  /\ idx = 2
  /\ Len(result.optionsApplied) = 1
  /\ result.optionsFailed = << >>
  /\ result.boardSelected

\* C14: applyFqbn on a target that does not parse returns at once with
\* success = false, boardSelected = false, errors = ["Invalid FQBN format"]
\* and no option listed, without any registry lookup, wait or command
\* execution.
C14_InvalidTarget ==
  (pc # "idle" /\ ~isValidFqbn(target)) =>
    /\ returned
    /\ result = [success |-> FALSE, boardSelected |-> FALSE,
                 optionsApplied |-> << >>, optionsFailed |-> << >>,
                 errors |-> <<"Invalid FQBN format">>]
    /\ bus = << >>
    /\ elapsed = 0

\* A call with an option item that is no key=value pair has returned, while
\* every command of the well-formed part of the target is registered.
C14_Witness ==
  /\ returned
  /\ target = TargetMalformed
  /\ selectBoardCommandId(Join(target.segs, ":")) \in registry
  /\ result.errors = <<"Invalid FQBN format">>

\* The most lookups waitForCommand can make: one every interval until the
\* timeout.
maxPolls == COMMAND_WAIT_TIMEOUT_MS \div COMMAND_POLL_INTERVAL_MS

boardLookedUp ==
  \E k \in DOMAIN bus : bus[k].op = "lookup" /\ bus[k].cmd = boardCommand

C15_WaitBounded ==
  /\ polls <= maxPolls
  /\ elapsed <= COMMAND_WAIT_TIMEOUT_MS + 2 * COMMAND_POLL_INTERVAL_MS
  /\ (pc # "idle" /\ parsed.valid /\ boardCommand \in regAtCall) =>
       (elapsed = 0 /\ polls <= 1)
  /\ (pc = "execBoard") => bus[Len(bus)] = Lookup(boardCommand, "present")
  /\ (returned /\ parsed.valid /\ ~boardLookedUp) =>
       /\ elapsed >= COMMAND_WAIT_TIMEOUT_MS
       /\ ~result.boardSelected

\* C15: every applyFqbn call terminates.  The wait for the board command
\* makes at most timeout/interval lookups and ends once the timeout has
\* elapsed, after which the call returns; a lookup that finds the command
\* goes on to execute it in the same step with no further waiting, and a
\* command registered when the call starts is found by the first lookup
\* with no wait at all.
C15_Terminates ==
  /\ []C15_WaitBounded
  /\ [][(pc = "poll" /\ pc' = "execBoard") =>
         (elapsed' = elapsed /\ boardCommand \in registry)]_vars
  /\ ((pc \notin {"idle", "done"}) ~> returned)

\* The wait made every lookup it could and the call returned on timeout.
C15_Witness ==
  /\ returned
  /\ parsed.valid
  /\ polls = maxPolls
  /\ elapsed >= COMMAND_WAIT_TIMEOUT_MS
  /\ bus = << >>
  /\ result.errors # << >>

\* The lookups of the command of option i made so far in this call.
optionLookups(i) ==
  { k \in DOMAIN bus : bus[k].op = "lookup" /\ bus[k].cmd = optionCommand(i) }

\* The turn of option i is over.
turnOver(i) == i < idx \/ (i = idx /\ returned)

notFoundEntry(i) ==
  [option |-> options[i].option, value |-> options[i].value,
   reason |-> "Command not found (option may not be available for this board)"]

appliedEntry(i) == [option |-> options[i].option, value |-> options[i].value]

C17_OneLookup ==
  \A i \in DOMAIN options :
    /\ Cardinality(optionLookups(i)) <= 1
    /\ turnOver(i) => Cardinality(optionLookups(i)) = 1
    /\ Lookup(optionCommand(i), "absent") \in Range(bus) =>
         /\ notFoundEntry(i) \in Range(result.optionsFailed)
         /\ appliedEntry(i) \notin Range(result.optionsApplied)
         /\ Exec(optionCommand(i), "ok") \notin Range(bus)
         /\ optionCommand(i) \notin regAtSelect
    /\ (turnOver(i) /\ optionCommand(i) \in regAtSelect) =>
         Lookup(optionCommand(i), "absent") \notin Range(bus)
    /\ (turnOver(i) /\ Exec(optionCommand(i), "ok") \in Range(bus)) =>
         appliedEntry(i) \in Range(result.optionsApplied)

\* C17: only the board command is waited for.  Each option's command is
\* looked up once, in the registry as it is when the option's turn comes,
\* and the call moves on in that same step: a command absent then puts the
\* option in optionsFailed with the reason 'Command not found ...' even if
\* it is registered later, and a command registered after the board was
\* selected and before its lookup is found and applied.
C17_SingleFreshLookup ==
  /\ []C17_OneLookup
  /\ [][(pc = "optList" /\ bus' # bus) =>
         /\ elapsed' = elapsed
         /\ bus' = Append(bus, bus'[Len(bus')])
         /\ bus'[Len(bus')].op = "lookup"
         /\ bus'[Len(bus')].cmd = optionCommand(idx)
         /\ bus'[Len(bus')].res = "present" =>
              (optionCommand(idx) \in registry /\ pc' = "optExec")
         /\ bus'[Len(bus')].res = "absent" =>
              (optionCommand(idx) \notin registry /\ pc' # "optExec")
        ]_vars

\* The command of the first option was absent at its turn and registered
\* afterwards; the command of the second was registered after the board was
\* selected and was applied.
C17_Witness ==
  /\ returned
  /\ Len(options) = 2
  /\ Lookup(optionCommand(1), "absent") \in Range(bus)
  /\ optionCommand(1) \in registry
  /\ result.optionsFailed = <<notFoundEntry(1)>>
  /\ optionCommand(2) \notin regAtSelect
  /\ result.optionsApplied = <<appliedEntry(2)>>

\* The registry held the same commands from the start of the first call to
\* now (it only grows).
registryUnchanged == lastCall.registry = registry

\* The host answered the same in both calls: the same lookup or execution
\* got the same answer, and the board command's lookup threw in both or in
\* neither.
sameAnswers ==
  /\ \A i \in DOMAIN bus, j \in DOMAIN lastCall.bus :
       (bus[i].op = lastCall.bus[j].op /\ bus[i].cmd = lastCall.bus[j].cmd)
         => bus[i].res = lastCall.bus[j].res
  /\ Lookup(boardCommand, "threw") \in Range(bus)
       <=> Lookup(boardCommand, "threw") \in Range(lastCall.bus)

secondReturned == returned /\ lastCall.returned /\ lastCall.target = target

\* C16: applyFqbn called twice in a row with the same target, the registry
\* holding the same commands throughout and the host answering the same,
\* returns equal results: the same success, boardSelected, optionsApplied,
\* optionsFailed and errors.
C16_Idempotent ==
  (secondReturned /\ registryUnchanged /\ sameAnswers) =>
    /\ result.success = lastCall.result.success
    /\ result.boardSelected = lastCall.result.boardSelected
    /\ result.optionsApplied = lastCall.result.optionsApplied
    /\ result.optionsFailed = lastCall.result.optionsFailed
    /\ result.errors = lastCall.result.errors

\* Both calls selected the board, applied one option and failed the other.
C16_Witness ==
  /\ secondReturned
  /\ registryUnchanged
  /\ sameAnswers
  /\ result.boardSelected
  /\ Len(result.optionsApplied) = 1
  /\ Len(result.optionsFailed) = 1
  /\ result = lastCall.result

\* The options of the target in the order of its text.
written == parsed.options

\* Where option e stands in the text of the target.
position(e) ==
  CHOOSE i \in DOMAIN written :
    written[i].option = e.option /\ written[i].value = e.value

\* Where the option of command cmd stands in the text of the target.
positionOf(cmd) ==
  CHOOSE i \in DOMAIN written :
    cmd = configOptionCommandId(baseFqbn, written[i].option, written[i].value)

\* The lookups and executions of option commands, in the order they were
\* made.
isOptionEvent(e) == e.cmd # boardCommand /\ e.op # "updateDefaultProfile"

optionEvents == SelectSeq(bus, isOptionEvent)

inTextOrder(list) ==
  \A k, l \in DOMAIN list : k < l => position(list[k]) < position(list[l])

\* C18: the option commands are issued in the order the options stand in
\* the target, one after the other, each execution right after its own
\* lookup and before the next option's lookup, and optionsApplied and
\* optionsFailed each list their options in that same relative order.
C18_InsertionOrder ==
  parsed.valid =>
    /\ \A k, l \in DOMAIN optionEvents :
         k < l => positionOf(optionEvents[k].cmd) <= positionOf(optionEvents[l].cmd)
    /\ \A k \in DOMAIN optionEvents :
         optionEvents[k].op = "exec" =>
           /\ k > 1
           /\ optionEvents[k - 1] = Lookup(optionEvents[k].cmd, "present")
    /\ inTextOrder(result.optionsApplied)
    /\ inTextOrder(result.optionsFailed)

\* ------------------------------------------------------------------------
\* Properties of the tracker
\* ------------------------------------------------------------------------

\* The options of board details that have a selected value, each with the
\* first of its selected values.
HasSelection(o) == \E k \in DOMAIN o.values : o.values[k].selected

FirstSelectedIndex(o) ==
  CHOOSE k \in DOMAIN o.values :
    o.values[k].selected /\ \A j \in 1..(k - 1) : ~o.values[j].selected

SelectedPairs(boardDetails) ==
  { <<o.option, o.values[FirstSelectedIndex(o)].value>> :
      o \in { x \in Range(boardDetails.configOptions) : HasSelection(x) } }

StatePairs(state) ==
  { <<state.configOptions[i].option, state.configOptions[i].value>> :
      i \in DOMAIN state.configOptions }

StateOptions(state) ==
  { state.configOptions[i].option : i \in DOMAIN state.configOptions }

ValueIn(state, option) ==
  (CHOOSE pair \in StatePairs(state) : pair[1] = option)[2]

snapshotObserved == observed.fqbn # Undefined /\ observed.boardDetails.present

firstSeen == snapshotObserved /\ observed.fqbn \notin DOMAIN observed.statesBefore

\* C7: a snapshot-bearing observation of an identifier with no stored
\* snapshot is initial with no changes when no board was selected before,
\* is not initial with exactly one "FQBN" record (previous and new
\* identifier) when another identifier was selected before, and in both
\* cases stores the new snapshot: the options with a selected value.
C7_FirstSeen ==
  firstSeen =>
    /\ observed.selectedBefore = Undefined =>
         observed.isInitial /\ observed.changes = << >>
    /\ observed.selectedBefore \notin {Undefined, observed.fqbn} =>
         /\ ~observed.isInitial
         /\ Len(observed.changes) = 1
         /\ observed.changes[1].option = "FQBN"
         /\ observed.changes[1].previousValue = observed.selectedBefore
         /\ observed.changes[1].newValue = observed.fqbn
    /\ observed.fqbn \in DOMAIN previousStates
    /\ StatePairs(previousStates[observed.fqbn]) = SelectedPairs(observed.boardDetails)
    /\ Len(previousStates[observed.fqbn].configOptions)
         = Cardinality(SelectedPairs(observed.boardDetails))

\* A board with a selected option, first seen after another board.
C7_Witness ==
  /\ firstSeen
  /\ observed.selectedBefore \notin {Undefined, observed.fqbn}
  /\ SelectedPairs(observed.boardDetails) # {}

seenAgain == snapshotObserved /\ observed.fqbn \in DOMAIN observed.statesBefore

S_old == observed.statesBefore[observed.fqbn]
S_new == previousStates[observed.fqbn]

NewOptions == StateOptions(S_new) \ StateOptions(S_old)

ChangedOptions ==
  { o \in StateOptions(S_new) \cap StateOptions(S_old) :
      ValueIn(S_new, o) # ValueIn(S_old, o) }

isOptionChange(c) == c.option # "FQBN"

OptionChanges == SelectSeq(observed.changes, isOptionChange)

C8_Diff(changes) ==
  /\ ~observed.isInitial
  /\ Len(changes) = Cardinality(NewOptions \cup ChangedOptions)
  /\ \A o \in NewOptions :
       \E k \in DOMAIN changes :
         /\ changes[k].option = o
         /\ changes[k].previousValue = Undefined
         /\ changes[k].previousLabel = Undefined
         /\ changes[k].newValue = ValueIn(S_new, o)
  /\ \A o \in ChangedOptions :
       \E k \in DOMAIN changes :
         /\ changes[k].option = o
         /\ changes[k].previousValue = ValueIn(S_old, o)
         /\ changes[k].newValue = ValueIn(S_new, o)
  /\ \A k \in DOMAIN changes :
       changes[k].option \notin StateOptions(S_old) \ StateOptions(S_new)
  /\ StatePairs(S_new) = StatePairs(S_old) => changes = << >>

\* C8 as stated: between two snapshots stored successively for one board the
\* reported changes are as many as the options of the new snapshot that are
\* new or differ in value, options only in the old one never appear, and an
\* identical snapshot yields no change at all.
C8_DiffCount == seenAgain => C8_Diff(observed.changes)

\* C8 amended: the same of the per-option changes, the records other than
\* the "FQBN" board-switch record that precedes them when another board was
\* selected in between; and of all the changes when the board was the
\* selected one already.
C8_DiffCountPerOption ==
  seenAgain =>
    /\ C8_Diff(OptionChanges)
    /\ observed.selectedBefore = observed.fqbn => C8_Diff(observed.changes)

\* C8 witness: a changed value and a removed option at once, after a board
\* switch.
C8_Witness ==
  /\ seenAgain
  /\ ChangedOptions # {}
  /\ StateOptions(S_old) \ StateOptions(S_new) # {}
  /\ Len(OptionChanges) < Len(observed.changes)

\* C9: an observation without board details returns isInitial = true and no
\* changes, and leaves the snapshot map and the selected board as they were.
C9_AbsentLeavesState ==
  (observed.fqbn # Undefined /\ ~observed.boardDetails.present) =>
    /\ observed.isInitial
    /\ observed.changes = << >>
    /\ previousStates = observed.statesBefore
    /\ currentlySelectedBoard = observed.selectedBefore

\* An absent observation of a board other than the selected one, on a
\* tracker that holds snapshots.
C9_Witness ==
  /\ observed.fqbn # Undefined
  /\ ~observed.boardDetails.present
  /\ observed.selectedBefore \notin {Undefined, observed.fqbn}
  /\ observed.fqbn \in DOMAIN previousStates

\* Another board than the observed one was the selected one.
switched == observed.selectedBefore \notin {Undefined, observed.fqbn}

\* C19: an observation of an identifier that has a stored snapshot is not
\* initial, replaces that snapshot by the new one (the snapshots of the
\* other identifiers stay) and returns, first, one "FQBN" record from the
\* previously selected identifier to this one if and only if another
\* identifier was selected before, then all the per-option diffs against
\* the snapshot stored before.
C19_SeenAgain ==
  seenAgain =>
    /\ ~observed.isInitial
    /\ DOMAIN previousStates = DOMAIN observed.statesBefore
    /\ \A f \in DOMAIN previousStates \ {observed.fqbn} :
         previousStates[f] = observed.statesBefore[f]
    /\ StatePairs(S_new) = SelectedPairs(observed.boardDetails)
    /\ Len(S_new.configOptions) = Cardinality(SelectedPairs(observed.boardDetails))
    /\ IF switched
       THEN /\ observed.changes # << >>
            /\ observed.changes[1].option = "FQBN"
            /\ observed.changes[1].previousValue = observed.selectedBefore
            /\ observed.changes[1].newValue = observed.fqbn
            /\ Tail(observed.changes) = OptionChanges
       ELSE observed.changes = OptionChanges
    /\ C8_Diff(OptionChanges)

\* A board seen again after another one, with a changed option value: the
\* "FQBN" record and a per-option diff.
C19_Witness ==
  /\ seenAgain
  /\ switched
  /\ ChangedOptions # {}
  /\ Len(observed.changes) >= 2
  /\ S_new # S_old

\* C35: snapshots are kept per board identifier: a snapshot-bearing
\* observation of one identifier leaves the snapshot of every other
\* identifier as it was, so an identifier observed again, after others, is
\* diffed against the snapshot its own last observation stored, and the
\* switch from the other board is reported first.
C35_PerBoard ==
  snapshotObserved =>
    /\ \A f \in DOMAIN observed.statesBefore \ {observed.fqbn} :
         f \in DOMAIN previousStates /\ previousStates[f] = observed.statesBefore[f]
    /\ DOMAIN previousStates = DOMAIN observed.statesBefore \cup {observed.fqbn}
    /\ (seenAgain /\ switched) =>
         /\ observed.changes[1] =
              FqbnChange(observed.selectedBefore, observed.fqbn,
                         observed.selectedBefore, observed.fqbn)
         /\ Tail(observed.changes) =
              optionChanges(S_old, S_new.configOptions)

\* A, B, A: the third observation finds the snapshot of B kept and reports
\* the switch and a changed option of A.
C35_Witness ==
  /\ seenAgain
  /\ switched
  /\ observed.selectedBefore \in DOMAIN previousStates
  /\ previousStates[observed.selectedBefore].configOptions # << >>
  /\ ChangedOptions # {}
  /\ Cardinality(DOMAIN previousStates) = 2

\* C39: the selected identifier is unset or a key of the snapshot map, and
\* unset exactly when the map is empty; after a snapshot-bearing
\* detectChanges(id, ...) the selected identifier is id and the map holds
\* the snapshot just observed for id.
C39_SelectedIsKey ==
  /\ currentlySelectedBoard # Undefined =>
       currentlySelectedBoard \in DOMAIN previousStates
  /\ currentlySelectedBoard = Undefined <=> previousStates = NoStates
  /\ snapshotObserved =>
       /\ currentlySelectedBoard = observed.fqbn
       /\ observed.fqbn \in DOMAIN previousStates
       /\ previousStates[observed.fqbn] =
            createState(observed.fqbn, observed.boardDetails)

\* Two boards observed, the selected one the second.
C39_Witness ==
  /\ snapshotObserved
  /\ Cardinality(DOMAIN previousStates) = 2
  /\ currentlySelectedBoard = observed.fqbn
  /\ observed.fqbn \notin DOMAIN observed.statesBefore

\* C40: since the tracker was created or cleared, at most one
\* snapshot-bearing detectChanges call returned isInitial = true, and it is
\* the first one; every later one returns isInitial = false, whatever board
\* it names; a result with isInitial = true has no changes.
C40_OneInitial ==
  /\ observed.initials <= 1
  /\ snapshotObserved => (observed.isInitial <=> observed.bearing = 1)
  /\ (observed.fqbn # Undefined /\ observed.isInitial) => observed.changes = << >>

\* A later observation names a board not seen since the clear, and is not
\* initial.
C40_Witness ==
  /\ snapshotObserved
  /\ observed.bearing = 2
  /\ observed.initials = 1
  /\ observed.fqbn \notin DOMAIN observed.statesBefore
  /\ ~observed.isInitial
  /\ observed.cleared = FALSE

\* The text has fewer than three colon-separated segments.
fewSegments ==
  Cardinality({i \in DOMAIN codec.text : codec.text[i] = ":"}) < 2

\* The items of the options portion of the text, the part after the third
\* colon.
itemsOfText ==
  LET parts == split(codec.text, ":") IN
  IF Len(parts) >= 4 THEN split(parts[4], ",") ELSE << >>

malformedPair == \E i \in DOMAIN itemsOfText : "=" \notin Range(itemsOfText[i])

InvalidFqbn == [valid |-> FALSE, baseFqbn |-> "", options |-> << >>]

baseOfText == textOf(joinTokens(SubSeq(split(codec.text, ":"), 1, 3), ":"))

C20_ClearResets ==
  /\ observed.fqbn = Undefined =>
       (previousStates = NoStates /\ currentlySelectedBoard = Undefined)
  /\ (snapshotObserved /\ observed.cleared) =>
       /\ observed.isInitial
       /\ observed.changes = << >>
       /\ observed.statesBefore = NoStates
       /\ observed.selectedBefore = Undefined
       /\ DOMAIN previousStates = {observed.fqbn}
       /\ currentlySelectedBoard = observed.fqbn

\* A board observed with its details as the first one after clear() emptied
\* a tracker that held snapshots.
C20_Witness ==
  /\ snapshotObserved
  /\ observed.cleared
  /\ observed.isInitial
  /\ SelectedPairs(observed.boardDetails) # {}

\* ------------------------------------------------------------------------
\* Properties of the event handlers
\* ------------------------------------------------------------------------

\* The log entries appended since the user last acted.
EntriesSince ==
  SubSeq(logs, sinceAction.logsLen + 1, Len(logs))

hasChanges(entry) == entry.changes # << >>

Reported == SelectSeq(EntriesSince, hasChanges)

logOnly(entry) == entry.changeType \in {"fqbn", "port"}

\* The tracker and the document are as they were when the user acted.
Untouched ==
  /\ previousStates = sinceAction.states
  /\ currentlySelectedBoard = sinceAction.selected
  /\ doc = sinceAction.doc

eventDelivered == pending # << >> /\ pending' = Tail(pending)

detailsEvent == eventDelivered /\ Head(pending).key = "boardDetails"

\* The step's handler called detectChanges and the tracker reported changes
\* that are not initial.
changeReported ==
  /\ sinceAction'.detects = sinceAction.detects + 1
  /\ ~observed'.isInitial
  /\ observed'.changes # << >>

activeFqbn(d) == d.profiles[d.default_profile].fqbn

\* C32: a boardDetails event appends a 'board' log entry exactly when the
\* tracker reports isInitial = false with changes, and brings the active
\* profile of sketch.yaml to the IDE's selection exactly when, in addition,
\* auto-update is enabled; with auto-update disabled no event writes the
\* document, and the change is logged all the same; an initial or
\* unchanged observation neither logs nor writes.
C32_LogAndSync ==
  [][ /\ detailsEvent =>
           ( /\ logs' = IF changeReported
                        THEN Append(logs,
                               LogEntry(ideFqbn', observed'.changes, "board"))
                        ELSE logs
             /\ (changeReported /\ autoUpdate) =>
                  ( /\ activeFqbn(doc') = buildCompleteFqbn(ideDetails')
                    /\ doc'.default_profile = doc.default_profile )
             /\ ~(changeReported /\ autoUpdate) => doc' = doc )
      /\ (eventDelivered /\ ~autoUpdate) => doc' = doc ]_vars

\* With auto-update disabled, a change of the selection was logged and the
\* document still has the FQBN it had.
C32_Witness ==
  /\ ~autoUpdate
  /\ sinceAction.fired # << >>
  /\ sinceAction.fired[Len(sinceAction.fired)] = "boardDetails"
  /\ Len(logs) > sinceAction.logsLen
  /\ logs[Len(logs)].changeType = "board"
  /\ logs[Len(logs)].changes = observed.changes
  /\ doc = sinceAction.doc
  /\ activeFqbn(doc) # buildCompleteFqbn(ideDetails)

\* ------------------------------------------------------------------------
\* Properties of applyProfile
\* ------------------------------------------------------------------------

\* The call got past its checks: it wrote default_profile and entered
\* applyFqbn.
reachedSynchronizer ==
  bus # << >> /\ bus[1].op = "updateDefaultProfile"

isBoardSelect(e) == e.op = "exec" /\ e.cmd = boardCommand

\* C1: in a call applyProfile(name), every invocation of the board-select
\* command comes after the write that sets default_profile to name.
C1_PointerBeforeBoard ==
  \A i \in DOMAIN bus :
    isBoardSelect(bus[i]) =>
      \E j \in 1..(i - 1) :
        bus[j] = [op |-> "updateDefaultProfile", cmd |-> profileName,
                  res |-> profileName]

\* C1 witness: the board-select command was invoked in a call that had to
\* move default_profile.
C1_Witness ==
  /\ \E i \in DOMAIN bus : isBoardSelect(bus[i])
  /\ docAtCall.default_profile # profileName
  /\ doc.default_profile = profileName

synchronizerFailed ==
  /\ reachedSynchronizer
  /\ pc = "done"
  /\ (~result.boardSelected \/ result.optionsFailed # << >>)

pointerIntact(d) == d.present /\ d.default_profile \in DOMAIN d.profiles

\* The step is updateDefaultProfile(name) with a name that is no profile.
updatesToMissing ==
  /\ lastOp'.op = "updateDefaultProfile"
  /\ lastOp'.before = doc
  /\ lastOp'.name \notin DOMAIN doc.profiles
  /\ calls' = calls

\* The step is applyProfile(name) with a name that is no profile or a
\* profile without an fqbn.
appliesUnusable ==
  /\ calls' = calls + 1
  /\ doc.present
  /\ \/ profileName' \notin DOMAIN doc.profiles
     \/ doc.profiles[profileName'].fqbn = NoFqbn

\* C36: no operation on sketch.yaml (updateDefaultProfile,
\* updateSketchYamlFqbn, the creation of a profile, applyProfile) makes a
\* default_profile that names a profile name none; updateDefaultProfile with
\* a name that is no profile writes nothing; applyProfile with a name that
\* is no profile, or a profile without an fqbn, returns at once (false),
\* writes nothing and looks up and executes no command.
C36_PointerIntact ==
  [][ /\ pointerIntact(doc) => pointerIntact(doc')
      /\ updatesToMissing => doc' = doc
      /\ appliesUnusable =>
           ( /\ doc' = doc
             /\ bus' = << >>
             /\ pc' = pc
             /\ result' = result ) ]_vars

\* applyProfile was called for a profile without an fqbn, on a document
\* whose default_profile names another profile, and has returned.
C36_Witness ==
  /\ calls > 0
  /\ profileName \in DOMAIN doc.profiles
  /\ doc.profiles[profileName].fqbn = NoFqbn
  /\ pointerIntact(doc)
  /\ doc.default_profile # profileName
  /\ bus = << >>
  /\ lastOp.op = "updateDefaultProfile"
  /\ lastOp.name \notin DOMAIN lastOp.before.profiles

\* applyProfile has returned true and every update the IDE sent is
\* delivered.
appliedAndSettled ==
  /\ reachedSynchronizer
  /\ pc = "done"
  /\ result.success
  /\ pending = << >>

\* C38: with auto-update on and an IDE that applies every command and
\* reports the resulting selection after each, once applyProfile(name) has
\* returned true and the IDE's updates are all delivered, the fqbn of the
\* profile name has the base identifier it had when the call was made and,
\* for every option it had then, the same value.
C38_ProfileSurvives ==
  appliedAndSettled =>
    LET before == docAtCall.profiles[profileName].fqbn
        after == doc.profiles[profileName].fqbn
    IN  /\ after.segs = before.segs
        /\ \A i \in DOMAIN before.opts :
             \E j \in DOMAIN after.opts : after.opts[j] = before.opts[i]

\* The board-select command made the IDE report another value of an option
\* than the profile has; auto-update wrote it into the profile, and wrote
\* the profile's value back after the option command.
C38_Witness ==
  /\ appliedAndSettled
  /\ autoUpdate
  /\ docAtCall.default_profile # profileName
  /\ \E i, j \in DOMAIN logs :
       /\ i < j
       /\ logs[i].changeType = "board"
       /\ logs[j].changeType = "board"
       /\ \E k \in DOMAIN logs[j].changes :
            /\ logs[j].changes[k].option = "UploadSpeed"
            /\ logs[j].changes[k].previousValue = "460800"
            /\ logs[j].changes[k].newValue = "921600"

\* ------------------------------------------------------------------------
\* Properties of sketch.yaml
\* ------------------------------------------------------------------------

fqbnUpdated == lastOp.op = "updateSketchYamlFqbn"

\* The active profile of the document before the last operation.
activeBefore ==
  IF lastOp.before.default_profile = Undefined THEN DEFAULT_PROFILE_NAME
  ELSE lastOp.before.default_profile

\* C11: updateSketchYamlFqbn changes nothing but the fqbn and the first
\* platforms entry of the active profile (the one default_profile names,
\* "default" when the field is missing): the file stays there or absent,
\* default_profile and the set of profiles are the same, every other
\* profile is the same, and in the active profile the libraries and the
\* platforms entries after the first are the same, with no entry added
\* beyond a first one.
C11_OnlyActiveFqbn ==
  fqbnUpdated =>
    LET before == lastOp.before IN
    /\ doc.present = before.present
    /\ doc.default_profile = before.default_profile
    /\ DOMAIN doc.profiles = DOMAIN before.profiles
    /\ \A n \in DOMAIN before.profiles :
         LET old == before.profiles[n]
             new == doc.profiles[n]
         IN  IF n # activeBefore THEN new = old
             ELSE /\ new.libraries = old.libraries
                  /\ Len(new.platforms) \in {Len(old.platforms), 1}
                  /\ Len(new.platforms) >= Len(old.platforms)
                  /\ \A i \in 2..Len(old.platforms) :
                       new.platforms[i] = old.platforms[i]

\* C11 witness: the active profile has two platforms entries and gets
\* another fqbn and another first entry.
C11_Witness ==
  /\ fqbnUpdated
  /\ activeBefore \in DOMAIN doc.profiles
  /\ Len(lastOp.before.profiles[activeBefore].platforms) = 2
  /\ doc.profiles[activeBefore].fqbn # lastOp.before.profiles[activeBefore].fqbn
  /\ doc.profiles[activeBefore].platforms[1]
       # lastOp.before.profiles[activeBefore].platforms[1]

\* The cases in which updateSketchYamlFqbn has nothing to update: no file,
\* no profiles, or an active profile that is not among the profiles.
nothingToUpdate ==
  \/ ~lastOp.before.present
  \/ DOMAIN lastOp.before.profiles = {}
  \/ activeBefore \notin DOMAIN lastOp.before.profiles

\* C28: updateSketchYamlFqbn leaves the document as it was when sketch.yaml
\* is missing, when it has no profiles, or when the active profile
\* (default_profile, else "default") is not a key of profiles.
C28_BestEffort ==
  (fqbnUpdated /\ nothingToUpdate) => doc = lastOp.before

\* The call had a board to write and a document with profiles, none of
\* them the active one.
C28_Witness ==
  /\ fqbnUpdated
  /\ lastOp.before.present
  /\ DOMAIN lastOp.before.profiles # {}
  /\ activeBefore \notin DOMAIN lastOp.before.profiles
  /\ buildCompleteFqbn(lastOp.boardDetails) # NoFqbn
  /\ doc = lastOp.before

\* ------------------------------------------------------------------------
\* Properties of the profile picker
\* ------------------------------------------------------------------------

\* An applyProfile call, the running one or one awaiting its turn, is still
\* between its board command lookup and its return.
earlierInFlight ==
  inFlight(Running) \/ \E i \in DOMAIN suspended : inFlight(suspended[i])

\* A step in which an applyProfile call writes default_profile.
writesDefaultProfile ==
  /\ calls' = calls + 1
  /\ ~profileUnusable(doc, profileName')

\* C12: profile switches are serialized: no applyProfile call writes
\* default_profile while the board-select-then-options sequence of an
\* earlier call is in flight, its wait for the board command included.
C12_Serialized ==
  [][writesDefaultProfile => ~earlierInFlight]_vars

\* ------------------------------------------------------------------------
\* Properties of LogService
\* ------------------------------------------------------------------------

appendedLast == logCall.op = "logConfigChange"
clearedLast == logCall.op = "clearLogs"

\* C21: the change log is append-only: with no clearLogs since, the log is
\* the entries loaded at initialization followed by the appended entries in
\* call order; an append leaves the earlier entries as they were, in place;
\* and only clearLogs empties a log that had entries.
C21_AppendOnly ==
  /\ logCall.op # "new" => logs = logCall.loaded \o logCall.appended
  /\ appendedLast => logs = Append(logCall.logsBefore, logCall.entry)
  /\ (logs = << >> /\ logCall.logsBefore # << >>) => clearedLast

C21_Witness ==
  /\ appendedLast
  /\ logCall.loaded # << >>
  /\ Len(logCall.appended) = 2
  /\ logCall.appended[1] # logCall.appended[2]
  /\ Len(logs) = 3

\* C22: after a logConfigChange whose write of the file succeeds the file
\* holds the whole in-memory log, the entries whose own write failed
\* included; a failed write does not throw, keeps the entry in memory and
\* leaves the file as it was.
C22_WholeListWritten ==
  appendedLast =>
    /\ logCall.wrote = "written" => logFile = Serialized(logs)
    /\ logCall.wrote = "refused" =>
         /\ ~logCall.threw
         /\ logs = Append(logCall.logsBefore, logCall.entry)
         /\ logFile = logCall.fileBefore

C22_Witness ==
  /\ appendedLast
  /\ logCall.wrote = "written"
  /\ logCall.fileBefore = Serialized(<< >>)
  /\ logCall.logsBefore # << >>
  /\ Len(logFile.entries) = 2

C24_NotifiesChanges ==
  appendedLast =>
    /\ IF logCall.entry.changeType # "initial" /\ logCall.entry.changes # << >>
       THEN notices = Append(logCall.noticesBefore, logCall.entry)
       ELSE notices = logCall.noticesBefore
    /\ logs = Append(logCall.logsBefore, logCall.entry)
    /\ logCall.wrote = "written" => logFile = Serialized(logs)

C24_Witness ==
  /\ appendedLast
  /\ logCall.entry.changeType = "initial"
  /\ logCall.entry.changes # << >>
  /\ notices = logCall.noticesBefore
  /\ logCall.wrote = "written"
  /\ logFile = Serialized(logs)

\* A step of the clear-logs command.
commandRuns ==
  logCall'.op = "clearLogsCommand" /\ logCall'.count = logCall.count + 1

confirmationDeclined ==
  /\ defaultCall.promptUser
  /\ defaultCall.answered
  /\ defaultCall.answer # "Yes"

\* C29: applyDefaultProfile with the confirmation answered with anything
\* but 'Yes' returns false and does nothing else: applyFqbn is not called,
\* no command is looked up or executed, and sketch.yaml is what it was.
C29_DeclinedNoEffects ==
  confirmationDeclined =>
    /\ defaultCall.returned = "false"
    /\ syncVars = defaultCall.syncBefore
    /\ doc = defaultCall.docBefore

\* The confirmation of a usable default profile was dismissed.
C29_Witness ==
  /\ confirmationDeclined
  /\ defaultCall.answer = Undefined
  /\ defaultCall.fqbn = TargetEsp2
  /\ registry = AllCommands
  /\ defaultCall.returned = "false"
  /\ pc = "idle"

\* ------------------------------------------------------------------------
\* Properties of createConfiguration
\* ------------------------------------------------------------------------

\* createConfiguration went from the entered name to its next await or to
\* its return.
nameEntered == lastOp.op = "createConfiguration" /\ lastOp.name # Undefined

\* The new profile is in the document and the switch question is pending.
inserted == nameEntered /\ createPc = "askSwitch"

\* A message that tells the user how the action went: a notification, a
\* warning or an error, not a question the action awaits the answer to.
outcome(kind) == kind # "question"

\* createConfiguration was called and has returned.
createReturned == shown.called /\ createPc = NoCreate

\* C31: a user-initiated action ends, on every path, with exactly one
\* message about its outcome (a success notification, a partial-success
\* warning or an error): stated for createConfiguration, when it has
\* returned it has shown exactly one.
C31_OneMessage ==
  createReturned => Len(SelectSeq(shown.messages, outcome)) = 1

\* C26: createConfiguration with a name that is a key of profiles is
\* rejected and the document is left as it was; with a new name it inserts
\* one record {fqbn, one platforms entry, no libraries} under that name and
\* leaves every other profile and default_profile as they were.
C26_CreateInsertsOne ==
  nameEntered =>
    LET before == lastOp.before
        name == lastOp.name
    IN  IF name \in DOMAIN before.profiles
        THEN doc = before /\ ~inserted
        ELSE \/ doc = before /\ ~inserted
             \/ /\ inserted
                /\ DOMAIN doc.profiles = DOMAIN before.profiles \cup {name}
                /\ doc.profiles[name].fqbn = buildCompleteFqbn(lastOp.boardDetails)
                /\ Len(doc.profiles[name].platforms) = 1
                /\ doc.profiles[name].libraries = << >>
                /\ \A n \in DOMAIN before.profiles :
                     doc.profiles[n] = before.profiles[n]
                /\ doc.default_profile = before.default_profile
                /\ doc.present = before.present

\* The platforms entry the version policy gives for the board of the last
\* operation: the version in runtime.platform.path, else the version
\* property, else no version.
policyPlatform ==
  LET boardDetails == lastOp.boardDetails
      platformId == extractPlatformId(buildCompleteFqbn(boardDetails))
  IN  [platform |->
         formatPlatformString(platformId,
                              getPlatformVersion(boardDetails.buildProperties,
                                                 platformId))]

\* C30: the platform string written when sketch.yaml is created, when the
\* active profile's FQBN is updated in place and when a profile is created
\* has its version by one policy: from the installation path when the path
\* has /vendor/hardware/arch/, else the version property, else none.
C30_SamePolicy ==
  /\ (lastOp.op = "createSketchYaml" /\ doc.present) =>
       doc.profiles[DEFAULT_PROFILE_NAME].platforms = <<policyPlatform>>
  /\ (fqbnUpdated /\ ~nothingToUpdate
        /\ buildCompleteFqbn(lastOp.boardDetails) # NoFqbn) =>
       doc.profiles[activeBefore].platforms[1] = policyPlatform
  /\ inserted => doc.profiles[lastOp.name].platforms = <<policyPlatform>>

\* ------------------------------------------------------------------------
\* Properties of getProfiles and getActiveProfile
\* ------------------------------------------------------------------------

activeRead == lastOp.op = "getActiveProfile"

\* The name default_profile gives, "default" when the field is absent.
namedDefault(d) ==
  IF d.default_profile = Undefined THEN DEFAULT_PROFILE_NAME
  ELSE d.default_profile

\* C27: getActiveProfile returns the profile default_profile names
\* ("default" when the field is absent) when it exists and has an FQBN, and
\* nothing when the document is missing or unreadable, when no profile has
\* that name, or when that profile has no FQBN; getProfiles lists no profile
\* without an FQBN.
C27_ActiveProfile ==
  activeRead =>
    LET d == lastOp.before
        name == namedDefault(d)
    IN  /\ lastOp.name =
             IF /\ d.present
                /\ ~lastOp.unreadable
                /\ name \in DOMAIN d.profiles
                /\ d.profiles[name].fqbn # NoFqbn
             THEN name
             ELSE Undefined
        /\ \A n \in lastOp.profiles :
             n \in DOMAIN d.profiles /\ d.profiles[n].fqbn # NoFqbn
        /\ (d.present /\ ~lastOp.unreadable) =>
             \A n \in DOMAIN d.profiles :
               d.profiles[n].fqbn # NoFqbn => n \in lastOp.profiles

\* default_profile names a profile that has no FQBN, next to one that has.
C27_Witness ==
  /\ activeRead
  /\ lastOp.before.default_profile = "bare"
  /\ "bare" \in DOMAIN lastOp.before.profiles
  /\ lastOp.name = Undefined
  /\ lastOp.profiles = {DEFAULT_PROFILE_NAME}

====
